---- MODULE Spec2Model ----
(***************************************************************************)
(* Verification model of farp (farp-rust).                                 *)
(*                                                                         *)
(* Part 1: MemoryRegistry (src/registry/memory.rs) as a state machine of   *)
(* concurrent tasks calling the SchemaRegistry operations.  Every await    *)
(* point of the source (a lock acquisition) starts a new step; the code    *)
(* between two await points is one atomic step.                            *)
(***************************************************************************)
EXTENDS Integers, Sequences, FiniteSets, TLC

(***************************************************************************)
(* Bounds of the model.                                                    *)
(***************************************************************************)
NumTasks == 2          \* concurrent caller tasks
MaxCalls == 3          \* registry calls started in one behaviour
MaxWatchers == 2       \* watch_manifests registrations in one behaviour

Tasks == 1..NumTasks
WatcherIds == 1..MaxWatchers

None == "None"
Ok == "Ok"

(***************************************************************************)
(* Strings are modelled as TLA+ strings; the empty string is "".           *)
(* A version string is modelled by its list of '.'-separated segments.     *)
(***************************************************************************)
PROTOCOL_VERSION == <<"1", "0", "0">>
PROTOCOL_MAJOR == 1
PROTOCOL_MINOR == 0

\* str::parse::<u32>() on one segment: the number, or ParseFail (.ok() = None).
ParseFail == -1
ParseU32(s) ==
    CASE s = "0" -> 0
      [] s = "1" -> 1
      [] s = "2" -> 2
      [] OTHER -> ParseFail

is_compatible(manifest_version) ==
    IF Len(manifest_version) # 3 THEN FALSE
    ELSE LET major == ParseU32(manifest_version[1])
             minor == ParseU32(manifest_version[2])
         IN  IF major # ParseFail /\ minor # ParseFail
             THEN IF major # PROTOCOL_MAJOR THEN FALSE
                  ELSE minor <= PROTOCOL_MINOR
             ELSE FALSE

(***************************************************************************)
(* Manifests.  A hash string is the sequence of its blocks of BlockLen     *)
(* characters (<< "p", "q" >> is the characters of block p followed by     *)
(* those of block q), so that concatenation is \o and two hash strings are *)
(* equal exactly when their sequences are.  A checksum string is a tuple:  *)
(* << >> is the empty string.                                              *)
(***************************************************************************)
\* Option<T> of the fields the merger and the diff read.
NoneOpt == [some |-> FALSE]
Some(x) == [some |-> TRUE, v |-> x]

\* RoutingConfig::default(): MountStrategy::Instance, no base_path.
DefaultRouting == [strategy |-> "instance", base_path |-> NoneOpt]

new_manifest(service_name, service_version, instance_id) ==
    [ version         |-> PROTOCOL_VERSION,
      service_name    |-> service_name,
      service_version |-> service_version,
      instance_id     |-> instance_id,
      schemas         |-> << >>,
      capabilities    |-> << >>,
      health          |-> "",
      routing         |-> DefaultRouting,
      checksum        |-> << >> ]

BlockLen == 64

\* String::len of a hash string.
HashLen(hash) == BlockLen * Len(hash)

\* validate_schema_location: the enum is always one of the three kinds.
validate_schema_location(sl) ==
    CASE sl.location_type = "http" ->
           IF sl.url = None \/ sl.url = "" THEN "InvalidLocation" ELSE Ok
      [] sl.location_type = "registry" ->
           IF sl.registry_path = None \/ sl.registry_path = ""
           THEN "InvalidLocation" ELSE Ok
      [] OTHER -> Ok

validate_schema_descriptor(sd) ==
    IF sd.spec_version = "" THEN "Validation:spec_version"
    ELSE IF validate_schema_location(sd.location) # Ok
         THEN validate_schema_location(sd.location)
    ELSE IF sd.location.location_type = "inline" /\ sd.inline_schema = None
         THEN "Validation:inline_schema"
    ELSE IF sd.hash = << >> THEN "Validation:hash"
    ELSE IF HashLen(sd.hash) # 64 THEN "Validation:hash"
    ELSE IF sd.content_type = "" THEN "Validation:content_type"
    ELSE Ok

\* The schema types in the order of their as_str() strings.
TypeRank(t) ==
    CASE t = "asyncapi" -> 1 [] t = "avro" -> 2 [] t = "custom" -> 3
      [] t = "graphql" -> 4 [] t = "grpc" -> 5 [] t = "openapi" -> 6
      [] t = "orpc" -> 7 [] t = "thrift" -> 8

\* Stable sort of a descriptor list by schema type (Vec::sort_by).
RECURSIVE InsertSorted(_, _)
InsertSorted(sorted, d) ==
    IF sorted = << >> THEN << d >>
    ELSE IF TypeRank(Head(sorted).schema_type) <= TypeRank(d.schema_type)
         THEN << Head(sorted) >> \o InsertSorted(Tail(sorted), d)
         ELSE << d >> \o sorted

RECURSIVE SortByType(_)
SortByType(ds) ==
    IF ds = << >> THEN << >>
    ELSE InsertSorted(SortByType(SubSeq(ds, 1, Len(ds) - 1)), ds[Len(ds)])

\* hex::encode of the SHA-256 of a string: an injective tag of the string.
Sha256Hex(bytes) == << "sha256", bytes >>

\* sorted_schemas.iter().map(|s| s.hash.as_str()).collect::<String>()
RECURSIVE CollectHashes(_)
CollectHashes(sorted_schemas) ==
    IF sorted_schemas = << >> THEN << >>
    ELSE Head(sorted_schemas).hash \o CollectHashes(Tail(sorted_schemas))

\* A faulty variant: the hashes are taken in the order of the manifest.
calculate_manifest_checksum_unsorted(m) ==
    IF m.schemas = << >> THEN << >>
    ELSE Sha256Hex(CollectHashes(m.schemas))

calculate_manifest_checksum(m) ==
    IF m.schemas = << >> THEN << >>
    ELSE LET sorted_schemas == SortByType(m.schemas)
             combined == CollectHashes(sorted_schemas)
         IN  Sha256Hex(combined)

validate(m) ==
    IF ~is_compatible(m.version) THEN "IncompatibleVersion"
    ELSE IF m.service_name = "" THEN "Validation:service_name"
    ELSE IF m.instance_id = "" THEN "Validation:instance_id"
    ELSE IF m.health = "" THEN "Validation:endpoints.health"
    ELSE IF \E i \in 1..Len(m.schemas) :
              validate_schema_descriptor(m.schemas[i]) # Ok
         THEN "InvalidManifest"
    ELSE IF m.checksum # << >> /\ m.checksum # calculate_manifest_checksum(m)
         THEN "ChecksumMismatch"
    ELSE Ok

(***************************************************************************)
(* MemoryRegistry: inputs of the calls.                                    *)
(***************************************************************************)
InstanceIds == {"i1", "i2"}
ServiceNames == {"a", "b"}
WatchKeys == ServiceNames \cup {""}
SchemaPaths == {"/schemas/p"}
SchemaValues == {"s1"}

WithHealth(m, h) == [m EXCEPT !.health = h]

\* Manifests that pass validate(): built as the tests build them.
ValidManifests ==
    { WithHealth(new_manifest("a", "v1", "i1"), "/health"),
      WithHealth(new_manifest("b", "v1", "i1"), "/health"),
      WithHealth(new_manifest("a", "v1", "i2"), "/health") }

\* Manifests that fail validate().
InvalidManifests ==
    { new_manifest("a", "v1", "i1"),
      WithHealth(new_manifest("", "v1", "i2"), "/health") }

CallManifests == ValidManifests \cup InvalidManifests

(***************************************************************************)
(* State.                                                                  *)
(***************************************************************************)
VARIABLES
    manifests,      \* RegistryInner.manifests: HashMap instance_id -> manifest
    schemas,        \* RegistryInner.schemas: HashMap path -> value
    watchers,       \* RegistryInner.watchers: HashMap name -> Vec<sender>
    closed,         \* RegistryInner.closed
    closedLock,     \* task holding closed.write() across an await, or 0
    manifestsLock,  \* task holding manifests.write() across an await, or 0
    watchersLock,   \* tasks holding watchers.read() across their sends
    chan,           \* per channel: every event accepted by sender.send()
    delivered,      \* per channel: number of events passed to on_change
    handler,        \* per channel: state of the spawned receiver task
    nWatchers,      \* channels created so far
    pc,             \* per task: position in the current call
    call,           \* per task: the current (or last) call and its argument
    ret,            \* per task: result of the last completed call
    event,          \* per task: the ManifestEvent built by the call
    targets,        \* per task: senders notify_watchers still has to serve
    nCalls,         \* calls started so far
    nMut,           \* history: mutations applied to the manifest map
    applied,        \* history: per instance_id, number of the last mutation
    notified,       \* history: per task, notify_watchers calls of the call
    subAt,          \* history: per channel, nMut when it was registered
    subKey,         \* history: per channel, the name it was registered under
    late,           \* history: per task, the call began after a close returned
    overlap,        \* history: a call was in flight when close() first returned
    seen,           \* history: per task, senders registered at call start
    closeDone,      \* history: some close() call has returned
    serial          \* history: so far only register, update, delete and
                    \* watch calls, each begun with no other call in flight

\* State of one Merger::merge call (Part 2), of the manifest under
\* construction (Part 3), of a gateway Client (Part 4) and of a
\* ManifestStorage over its backend (Part 5).
VARIABLES
    mConfig,        \* Merger.config
    mSchemas,       \* merge argument: Vec<ServiceSchema>
    mIdx,           \* index of the service the loop is at
    mPhase,         \* position in merge
    mTodo,          \* keys of the map being iterated that are still to come
    mResult,        \* result: MergeResult
    mSeen,          \* seen_paths, seen_components, seen_operation_ids, ...
    mRet,           \* what merge returned
    mHist,          \* history: what the last merge step did
    mf,             \* a SchemaManifest owned by its producer
    old,            \* a second SchemaManifest, for diff_manifests
    mfOps,          \* operations applied to mf so far
    mfLast,         \* history: the last operation applied to mf
    mfAdded,        \* history: the arguments of add_capability, in call order
    manifest_cache, \* Client.manifest_cache: HashMap instance_id -> manifest
    schema_cache,   \* Client.schema_cache: HashMap hash -> schema
    gwRegistry,     \* the schemas of Client.registry: path -> schema
    gwOps,          \* operations of the client so far
    gwLast,         \* history: the last operation of the client
    gwWatch,        \* position of the client's watch_services call
    gwTasks,        \* the tasks spawned by the handler of watch_services
    backend,        \* ManifestStorage.backend: key -> bytes
    stHelper,       \* ManifestStorage.helper: compression_threshold, max_size
    stOps,          \* operations on the storage so far
    stLast,         \* history: the last operation on the storage
    stStored,       \* history: (service_name, instance_id) -> manifest put,
                    \* and not deleted since
    stForeign       \* history: a value was written past ManifestStorage

mergeVars == << mConfig, mSchemas, mIdx, mPhase, mTodo, mResult, mSeen, mRet,
                mHist >>
manifestVars == << mf, old, mfOps, mfLast, mfAdded >>
gatewayVars ==
    << manifest_cache, schema_cache, gwRegistry, gwOps, gwLast, gwWatch,
       gwTasks >>
storageVars == << backend, stHelper, stOps, stLast, stStored, stForeign >>
pureVars == << mergeVars, manifestVars, gatewayVars, storageVars >>

registryVars ==
    << manifests, schemas, watchers, closed, closedLock, manifestsLock,
       watchersLock, chan, delivered, handler, nWatchers, pc, call, ret,
       event, targets, nCalls, nMut, applied, notified, subAt, subKey, seen,
       late, closeDone, overlap, serial >>

vars == << registryVars, pureVars >>

regVars == << manifests, schemas, watchers, closed >>
lockVars == << closedLock, manifestsLock, watchersLock >>
chanVars == << chan, delivered, handler, nWatchers >>
histVars == << nMut, applied, subAt, subKey, closeDone, overlap >>

NoEvent == [event_type |-> "none"]
NoCall == [op |-> "none"]

\* No merge is running.
MergerOff ==
    /\ mConfig = << >>
    /\ mSchemas = << >>
    /\ mIdx = 0
    /\ mPhase = "off"
    /\ mTodo = {}
    /\ mResult = << >>
    /\ mSeen = << >>
    /\ mRet = "none"
    /\ mHist = << >>

\* No manifest is being built.
ManifestOff ==
    /\ mf = << >>
    /\ old = << >>
    /\ mfOps = 0
    /\ mfLast = << >>
    /\ mfAdded = << >>

\* No gateway client exists.
GatewayOff ==
    /\ manifest_cache = << >>
    /\ schema_cache = << >>
    /\ gwRegistry = << >>
    /\ gwOps = 0
    /\ gwLast = << >>
    /\ gwWatch = << >>
    /\ gwTasks = << >>

\* No storage exists.
StorageOff ==
    /\ backend = << >>
    /\ stHelper = << >>
    /\ stOps = 0
    /\ stLast = << >>
    /\ stStored = << >>
    /\ stForeign = FALSE

\* MemoryRegistry::new.
InitRegistry ==
    /\ manifests = << >>
    /\ schemas = << >>
    /\ watchers = << >>
    /\ closed = FALSE
    /\ closedLock = 0
    /\ manifestsLock = 0
    /\ watchersLock = {}
    /\ chan = [w \in WatcherIds |-> << >>]
    /\ delivered = [w \in WatcherIds |-> 0]
    /\ handler = [w \in WatcherIds |-> "none"]
    /\ nWatchers = 0
    /\ pc = [t \in Tasks |-> "idle"]
    /\ call = [t \in Tasks |-> NoCall]
    /\ ret = [t \in Tasks |-> [status |-> "none"]]
    /\ event = [t \in Tasks |-> NoEvent]
    /\ targets = [t \in Tasks |-> << >>]
    /\ nCalls = 0
    /\ nMut = 0
    /\ applied = [i \in InstanceIds |-> 0]
    /\ notified = [t \in Tasks |-> 0]
    /\ subAt = [w \in WatcherIds |-> 0]
    /\ subKey = [w \in WatcherIds |-> ""]
    /\ late = [t \in Tasks |-> FALSE]
    /\ overlap = FALSE
    /\ seen = [t \in Tasks |-> {}]
    /\ closeDone = FALSE
    /\ serial = TRUE

Init == InitRegistry /\ MergerOff /\ ManifestOff /\ GatewayOff /\ StorageOff

(***************************************************************************)
(* HashMap helpers.                                                        *)
(***************************************************************************)
\* HashMap::insert: the entry under k is created or replaced.
MapInsert(map, k, v) ==
    [x \in (DOMAIN map) \cup {k} |-> IF x = k THEN v ELSE map[x]]

\* HashMap::remove.
MapRemove(map, k) == [x \in (DOMAIN map) \ {k} |-> map[x]]

\* All senders registered, under any name.
Registered(ws) == UNION { { ws[k][i] : i \in 1..Len(ws[k]) } : k \in DOMAIN ws }

(***************************************************************************)
(* Calls.  A task starts a call (Call), runs its steps and returns; the    *)
(* result stays in ret[t] until the task's next call returns.              *)
(***************************************************************************)
Calls ==
    { [op |-> "register_manifest", manifest |-> m] : m \in CallManifests }
    \cup { [op |-> "update_manifest", manifest |-> m] : m \in CallManifests }
    \cup { [op |-> "delete_manifest", instance_id |-> i] : i \in InstanceIds }
    \cup { [op |-> "get_manifest", instance_id |-> i] : i \in InstanceIds }
    \cup { [op |-> "list_manifests", service_name |-> k] : k \in WatchKeys }
    \cup { [op |-> "publish_schema", path |-> p, schema |-> v] :
              p \in SchemaPaths, v \in SchemaValues }
    \cup { [op |-> "fetch_schema", path |-> p] : p \in SchemaPaths }
    \cup { [op |-> "delete_schema", path |-> p] : p \in SchemaPaths }
    \cup { [op |-> "watch_manifests", service_name |-> k] : k \in WatchKeys }
    \cup { [op |-> "clear"], [op |-> "close"], [op |-> "health"] }

\* Operations that change the manifest map and notify the watchers.
MutatingOps == {"register_manifest", "update_manifest", "delete_manifest"}

\* Operations that begin with `if self.is_closed().await`.
ChecksClosed ==
    { "register_manifest", "update_manifest", "delete_manifest",
      "publish_schema", "delete_schema", "watch_manifests", "health" }

EntryPc(op) ==
    CASE op \in ChecksClosed -> "is_closed"
      [] op \in {"get_manifest", "list_manifests"} -> "read_manifests"
      [] op = "fetch_schema" -> "read_schemas"
      [] op = "clear" -> "clear_manifests"
      [] op = "close" -> "close_closed"

Result(status) == [status |-> status]
BackendUnavailable == Result("BackendUnavailable")
ManifestNotFound == Result("ManifestNotFound")
SchemaNotFound == Result("SchemaNotFound")

\* The call of task t returns r.
Return(t, r) ==
    /\ pc' = [pc EXCEPT ![t] = "idle"]
    /\ ret' = [ret EXCEPT ![t] = r]

Call(t, c) ==
    /\ pc[t] = "idle"
    /\ nCalls < MaxCalls
    /\ c.op = "watch_manifests" =>
           nWatchers + Cardinality({ u \in Tasks : pc[u] # "idle" /\
                                       call[u].op = "watch_manifests" })
             < MaxWatchers
    /\ nCalls' = nCalls + 1
    /\ call' = [call EXCEPT ![t] = c]
    /\ pc' = [pc EXCEPT ![t] = EntryPc(c.op)]
    /\ ret' = [ret EXCEPT ![t] = Result("pending")]
    /\ event' = [event EXCEPT ![t] = NoEvent]
    /\ seen' = [seen EXCEPT ![t] = Registered(watchers)]
    /\ notified' = [notified EXCEPT ![t] = 0]
    /\ late' = [late EXCEPT ![t] = closeDone]
    /\ serial' = (/\ serial
                   /\ c.op \in MutatingOps \cup {"watch_manifests"}
                   /\ \A u \in Tasks : pc[u] = "idle")
    /\ UNCHANGED << regVars, lockVars, chanVars, histVars, targets >>
    /\ UNCHANGED pureVars

(***************************************************************************)
(* is_closed, followed by the code up to the next await.                   *)
(***************************************************************************)
\* What follows `if self.is_closed().await { return Err(..) }` up to the
\* next lock: the pc to continue at, or the error returned.
\* Faulty variant: `manifest.validate()?` is left out.
AfterClosedCheck_unvalidated(c) ==
    CASE c.op \in {"register_manifest", "update_manifest", "delete_manifest"}
           -> [pc |-> "write_manifests"]
      [] c.op \in {"publish_schema", "delete_schema"} -> [pc |-> "write_schemas"]
      [] c.op = "watch_manifests" -> [pc |-> "write_watchers"]
      [] c.op = "health" -> [pc |-> "idle", ret |-> Result(Ok)]

AfterClosedCheck(c) ==
    CASE c.op \in {"register_manifest", "update_manifest"} ->
           IF validate(c.manifest) # Ok
           THEN [pc |-> "idle", ret |-> Result(validate(c.manifest))]
           ELSE [pc |-> "write_manifests"]
      [] c.op = "delete_manifest" -> [pc |-> "write_manifests"]
      [] c.op \in {"publish_schema", "delete_schema"} -> [pc |-> "write_schemas"]
      [] c.op = "watch_manifests" -> [pc |-> "write_watchers"]
      [] c.op = "health" -> [pc |-> "idle", ret |-> Result(Ok)]

\* Faulty variant: the closed flag is read and ignored.
is_closed_ignored(t) ==
    /\ pc[t] = "is_closed"
    /\ closedLock = 0
    /\ LET next == AfterClosedCheck(call[t])
       IN  IF next.pc = "idle"
           THEN Return(t, next.ret)
           ELSE /\ pc' = [pc EXCEPT ![t] = next.pc]
                /\ UNCHANGED ret
    /\ UNCHANGED << regVars, lockVars, chanVars, histVars, call, event,
                    targets, nCalls, seen, notified, late >>
    /\ UNCHANGED << serial, pureVars >>

is_closed(t) ==
    /\ pc[t] = "is_closed"
    /\ closedLock = 0
    /\ LET next == IF closed
                   THEN [pc |-> "idle", ret |-> BackendUnavailable]
                   ELSE AfterClosedCheck(call[t])
       IN  IF next.pc = "idle"
           THEN Return(t, next.ret)
           ELSE /\ pc' = [pc EXCEPT ![t] = next.pc]
                /\ UNCHANGED ret
    /\ UNCHANGED << regVars, lockVars, chanVars, histVars, call, event,
                    targets, nCalls, seen, notified, late >>
    /\ UNCHANGED << serial, pureVars >>

(***************************************************************************)
(* register_manifest / update_manifest / delete_manifest: the step under   *)
(* manifests.write(), from the lock acquisition to drop(manifests).        *)
(***************************************************************************)
\* Faulty variant: every event is built with EventType::Added.
ManifestEvent_added(event_type, manifest, seq) ==
    [event_type |-> "Added", manifest |-> manifest, seq |-> seq]

ManifestEvent(event_type, manifest, seq) ==
    [event_type |-> event_type, manifest |-> manifest, seq |-> seq]

\* Faulty variant: entry(..).or_insert(..), which keeps an entry that exists.
insert_manifest_keep(map, manifest) ==
    IF manifest.instance_id \in DOMAIN map THEN map
    ELSE MapInsert(map, manifest.instance_id, manifest)

\* manifests.insert(manifest.instance_id.clone(), manifest.clone())
insert_manifest(map, manifest) == MapInsert(map, manifest.instance_id, manifest)

\* Faulty variant: the entry is looked up but left in the map.
remove_manifest_keep(map, instance_id) == map

\* manifests.remove(instance_id)
remove_manifest(map, instance_id) == MapRemove(map, instance_id)

\* The manifest map changes to `map` by mutation number nMut + 1 of id, and
\* the task goes on to notify_watchers with the event.
Mutate(t, map, id, event_type, manifest) ==
    /\ manifests' = map
    /\ nMut' = nMut + 1
    /\ applied' = [applied EXCEPT ![id] = nMut + 1]
    /\ event' = [event EXCEPT ![t] = ManifestEvent(event_type, manifest, nMut + 1)]
    /\ pc' = [pc EXCEPT ![t] = "notify"]
    /\ UNCHANGED << schemas, watchers, closed, lockVars, chanVars, call, ret,
                    targets, nCalls, subAt, subKey, closeDone, overlap, seen,
                    notified, late >>

\* A call fails under the manifests lock: nothing changes.
Fail(t, r) ==
    /\ Return(t, r)
    /\ UNCHANGED << regVars, lockVars, chanVars, histVars, call, event,
                    targets, nCalls, seen, notified, late >>

register_manifest(t) ==
    /\ pc[t] = "write_manifests"
    /\ call[t].op = "register_manifest"
    /\ manifestsLock = 0
    /\ LET m == call[t].manifest
       IN  Mutate(t, insert_manifest(manifests, m), m.instance_id, "Added", m)
    /\ UNCHANGED << serial, pureVars >>

\* Faulty variant: the presence check always succeeds (update becomes an upsert).
contains_key_always(map, instance_id) == TRUE

\* manifests.contains_key(&manifest.instance_id)
contains_key(map, instance_id) == instance_id \in DOMAIN map

update_manifest(t) ==
    /\ pc[t] = "write_manifests"
    /\ call[t].op = "update_manifest"
    /\ manifestsLock = 0
    /\ LET m == call[t].manifest
       IN  IF ~contains_key(manifests, m.instance_id)
           THEN Fail(t, ManifestNotFound)
           ELSE Mutate(t, insert_manifest(manifests, m), m.instance_id,
                       "Updated", m)
    /\ UNCHANGED << serial, pureVars >>

delete_manifest(t) ==
    /\ pc[t] = "write_manifests"
    /\ call[t].op = "delete_manifest"
    /\ manifestsLock = 0
    /\ LET id == call[t].instance_id
       IN  IF id \notin DOMAIN manifests
           THEN Fail(t, ManifestNotFound)
           ELSE Mutate(t, remove_manifest(manifests, id), id, "Removed",
                       manifests[id])
    /\ UNCHANGED << serial, pureVars >>

(***************************************************************************)
(* notify_watchers: watchers.read() is held over the sends.                *)
(***************************************************************************)
Bucket(ws, name) == IF name \in DOMAIN ws THEN ws[name] ELSE << >>

\* Faulty variant: a missing service bucket falls back to the global bucket
\* "", which is then served again.
notify_targets_twice(ws, service_name) ==
    (IF service_name \in DOMAIN ws THEN ws[service_name] ELSE Bucket(ws, ""))
        \o Bucket(ws, "")

\* The senders served, in order: those under service_name, then those
\* under "".
notify_targets(ws, service_name) == Bucket(ws, service_name) \o Bucket(ws, "")

notify_watchers_read(t) ==
    /\ pc[t] = "notify"
    /\ targets' = [targets EXCEPT
                     ![t] = notify_targets(watchers, event[t].manifest.service_name)]
    /\ watchersLock' = watchersLock \cup {t}
    /\ notified' = [notified EXCEPT ![t] = @ + 1]
    /\ pc' = [pc EXCEPT ![t] = "send"]
    /\ UNCHANGED << regVars, closedLock, manifestsLock, chanVars, histVars,
                    call, ret, event, nCalls, seen, late >>
    /\ UNCHANGED << serial, pureVars >>

\* sender.send(event.clone()): fails, and is ignored, when the receiver is
\* gone; never blocks (unbounded channel).
send(ch, w, ev) ==
    IF handler[w] = "panicked" THEN ch ELSE [ch EXCEPT ![w] = Append(@, ev)]

\* Faulty variant: a channel of capacity 1, whose send waits for room.
ChannelHasRoom_bounded(w) == Len(chan[w]) - delivered[w] < 1

\* mpsc::unbounded_channel(): send never waits for the receiver.
ChannelHasRoom(w) == TRUE

notify_watchers_send(t) ==
    /\ pc[t] = "send"
    /\ targets[t] # << >>
    /\ ChannelHasRoom(Head(targets[t]))
    /\ chan' = send(chan, Head(targets[t]), event[t])
    /\ targets' = [targets EXCEPT ![t] = Tail(@)]
    /\ UNCHANGED << regVars, lockVars, delivered, handler, nWatchers,
                    histVars, pc, call, ret, event, nCalls, seen, notified, late >>
    /\ UNCHANGED << serial, pureVars >>

\* Faulty variant: the closed flag is read (closed.read().await) before the
\* watchers guard is dropped.
notify_watchers_return_closed(t) ==
    /\ pc[t] = "send"
    /\ targets[t] = << >>
    /\ closedLock = 0
    /\ watchersLock' = watchersLock \ {t}
    /\ Return(t, Result(Ok))
    /\ UNCHANGED << regVars, closedLock, manifestsLock, chanVars, histVars,
                    call, event, targets, nCalls, seen, notified, late >>
    /\ UNCHANGED << serial, pureVars >>

\* The end of notify_watchers: the watchers guard is dropped.
notify_watchers_return(t) ==
    /\ pc[t] = "send"
    /\ targets[t] = << >>
    /\ watchersLock' = watchersLock \ {t}
    /\ Return(t, Result(Ok))
    /\ UNCHANGED << regVars, closedLock, manifestsLock, chanVars, histVars,
                    call, event, targets, nCalls, seen, notified, late >>
    /\ UNCHANGED << serial, pureVars >>

(***************************************************************************)
(* Reads of the manifest map.                                              *)
(***************************************************************************)
\* The result of get_manifest(instance_id) on the map.
GetManifest(map, instance_id) ==
    IF instance_id \in DOMAIN map
    THEN [status |-> Ok, value |-> map[instance_id]]
    ELSE ManifestNotFound

\* The manifests list_manifests(service_name) returns (in HashMap order).
ListManifests(map, service_name) ==
    { map[i] : i \in { j \in DOMAIN map :
                         service_name = "" \/ map[j].service_name = service_name } }

get_manifest(t) ==
    /\ pc[t] = "read_manifests"
    /\ call[t].op = "get_manifest"
    /\ manifestsLock = 0
    /\ Return(t, GetManifest(manifests, call[t].instance_id))
    /\ UNCHANGED << regVars, lockVars, chanVars, histVars, call, event,
                    targets, nCalls, seen, notified, late >>
    /\ UNCHANGED << serial, pureVars >>

list_manifests(t) ==
    /\ pc[t] = "read_manifests"
    /\ call[t].op = "list_manifests"
    /\ manifestsLock = 0
    /\ Return(t, [status |-> Ok,
                  value |-> ListManifests(manifests, call[t].service_name)])
    /\ UNCHANGED << regVars, lockVars, chanVars, histVars, call, event,
                    targets, nCalls, seen, notified, late >>
    /\ UNCHANGED << serial, pureVars >>

(***************************************************************************)
(* Schema store.                                                           *)
(***************************************************************************)
FetchSchema(map, path) ==
    IF path \in DOMAIN map THEN [status |-> Ok, value |-> map[path]]
    ELSE SchemaNotFound

publish_schema(t) ==
    /\ pc[t] = "write_schemas"
    /\ call[t].op = "publish_schema"
    /\ schemas' = MapInsert(schemas, call[t].path, call[t].schema)
    /\ Return(t, Result(Ok))
    /\ UNCHANGED << manifests, watchers, closed, lockVars, chanVars, histVars,
                    call, event, targets, nCalls, seen, notified, late >>
    /\ UNCHANGED << serial, pureVars >>

fetch_schema(t) ==
    /\ pc[t] = "read_schemas"
    /\ Return(t, FetchSchema(schemas, call[t].path))
    /\ UNCHANGED << regVars, lockVars, chanVars, histVars, call, event,
                    targets, nCalls, seen, notified, late >>
    /\ UNCHANGED << serial, pureVars >>

\* Faulty variant: a path that is absent is an error, as in delete_manifest.
delete_schema_strict(t) ==
    /\ pc[t] = "write_schemas"
    /\ call[t].op = "delete_schema"
    /\ schemas' = MapRemove(schemas, call[t].path)
    /\ Return(t, IF call[t].path \in DOMAIN schemas THEN Result(Ok)
                 ELSE SchemaNotFound)
    /\ UNCHANGED << manifests, watchers, closed, lockVars, chanVars, histVars,
                    call, event, targets, nCalls, seen, notified, late >>
    /\ UNCHANGED << serial, pureVars >>

\* schemas.remove(path); Ok(()) whether or not the path was there.
delete_schema(t) ==
    /\ pc[t] = "write_schemas"
    /\ call[t].op = "delete_schema"
    /\ schemas' = MapRemove(schemas, call[t].path)
    /\ Return(t, Result(Ok))
    /\ UNCHANGED << manifests, watchers, closed, lockVars, chanVars, histVars,
                    call, event, targets, nCalls, seen, notified, late >>
    /\ UNCHANGED << serial, pureVars >>

(***************************************************************************)
(* watch_manifests: a new unbounded channel; its sender is pushed under    *)
(* service_name, its receiver moves into a spawned task.                   *)
(***************************************************************************)
\* watchers.entry(service_name).or_insert_with(Vec::new).push(tx)
push_watcher(ws, service_name, tx) ==
    MapInsert(ws, service_name, Append(Bucket(ws, service_name), tx))

watch_manifests(t) ==
    /\ pc[t] = "write_watchers"
    /\ watchersLock = {}
    /\ LET tx == nWatchers + 1
       IN  /\ watchers' = push_watcher(watchers, call[t].service_name, tx)
           /\ nWatchers' = tx
           /\ handler' = [handler EXCEPT ![tx] = "running"]
           /\ subAt' = [subAt EXCEPT ![tx] = nMut]
           /\ subKey' = [subKey EXCEPT ![tx] = call[t].service_name]
    /\ Return(t, Result(Ok))
    /\ UNCHANGED << manifests, schemas, closed, lockVars, chan, delivered,
                    nMut, applied, closeDone, overlap, call, event, targets,
                    nCalls, seen, notified, late >>
    /\ UNCHANGED << serial, pureVars >>

(***************************************************************************)
(* The spawned receiver task: while let Some(event) = rx.recv().await      *)
(* { on_change.on_change(&event) }.  A handler may return, never return,   *)
(* or panic (the task ends and the receiver is dropped).                   *)
(***************************************************************************)
on_change(w, outcome) ==
    /\ handler[w] = "running"
    /\ delivered[w] < Len(chan[w])
    /\ delivered' = [delivered EXCEPT ![w] = @ + 1]
    /\ handler' = [handler EXCEPT ![w] = outcome]
    /\ UNCHANGED << regVars, lockVars, chan, nWatchers, histVars, pc, call,
                    ret, event, targets, nCalls, seen, notified, late >>
    /\ UNCHANGED << serial, pureVars >>

on_change_returns(w) == on_change(w, "running")
on_change_hangs(w) == on_change(w, "hung")
on_change_panics(w) == on_change(w, "panicked")

(***************************************************************************)
(* clear: manifests.write() is held while schemas.write() is awaited.      *)
(***************************************************************************)
clear_manifests(t) ==
    /\ pc[t] = "clear_manifests"
    /\ manifestsLock = 0
    /\ manifestsLock' = t
    /\ pc' = [pc EXCEPT ![t] = "clear_schemas"]
    /\ UNCHANGED << regVars, closedLock, watchersLock, chanVars, histVars,
                    call, ret, event, targets, nCalls, seen, notified, late >>
    /\ UNCHANGED << serial, pureVars >>

clear_schemas(t) ==
    /\ pc[t] = "clear_schemas"
    /\ manifests' = << >>
    /\ schemas' = << >>
    /\ manifestsLock' = 0
    /\ nMut' = nMut + 1
    /\ applied' = [i \in InstanceIds |->
                     IF i \in DOMAIN manifests THEN nMut + 1 ELSE applied[i]]
    /\ Return(t, Result(Ok))
    /\ UNCHANGED << watchers, closed, closedLock, watchersLock, chanVars,
                    subAt, subKey, closeDone, overlap, call, event, targets,
                    nCalls, seen, notified, late >>
    /\ UNCHANGED << serial, pureVars >>

(***************************************************************************)
(* close: closed.write() is held while watchers.write() is awaited.        *)
(***************************************************************************)
\* History: close() returns in task t.
CloseReturns(t) ==
    /\ closeDone' = TRUE
    /\ overlap' = IF closeDone THEN overlap
                  ELSE \E u \in Tasks \ {t} : pc[u] # "idle"

close_closed(t) ==
    /\ pc[t] = "close_closed"
    /\ closedLock = 0
    /\ IF closed
       THEN /\ Return(t, Result(Ok))
            /\ CloseReturns(t)
            /\ UNCHANGED << closed, closedLock >>
       ELSE /\ closed' = TRUE
            /\ closedLock' = t
            /\ pc' = [pc EXCEPT ![t] = "close_watchers"]
            /\ UNCHANGED << ret, closeDone, overlap >>
    /\ UNCHANGED << manifests, schemas, watchers, manifestsLock, watchersLock,
                    chanVars, nMut, applied, subAt, subKey, call, event,
                    targets, nCalls, seen, notified, late >>
    /\ UNCHANGED << serial, pureVars >>

close_watchers(t) ==
    /\ pc[t] = "close_watchers"
    /\ watchersLock = {}
    /\ watchers' = << >>
    /\ closedLock' = 0
    /\ CloseReturns(t)
    /\ Return(t, Result(Ok))
    /\ UNCHANGED << manifests, schemas, closed, manifestsLock, watchersLock,
                    chanVars, nMut, applied, subAt, subKey, call, event,
                    targets, nCalls, seen, notified, late >>
    /\ UNCHANGED << serial, pureVars >>

(***************************************************************************)
(* The registry under concurrent callers.                                  *)
(***************************************************************************)
TaskStep(t) ==
    \/ is_closed(t)
    \/ register_manifest(t)
    \/ update_manifest(t)
    \/ delete_manifest(t)
    \/ notify_watchers_read(t)
    \/ notify_watchers_send(t)
    \/ notify_watchers_return(t)
    \/ get_manifest(t)
    \/ list_manifests(t)
    \/ publish_schema(t)
    \/ fetch_schema(t)
    \/ delete_schema(t)
    \/ watch_manifests(t)
    \/ clear_manifests(t)
    \/ clear_schemas(t)
    \/ close_closed(t)
    \/ close_watchers(t)

Next ==
    \/ \E t \in Tasks, c \in Calls : Call(t, c)
    \/ \E t \in Tasks : TaskStep(t)
    \/ \E w \in WatcherIds : on_change_returns(w)
    \/ \E w \in WatcherIds : on_change_hangs(w)
    \/ \E w \in WatcherIds : on_change_panics(w)

Spec == Init /\ [][Next]_vars

\* The runtime keeps running every caller task that can take a step, and
\* the locks are granted to whoever waits for them.  Nothing is assumed of
\* the receiver tasks: a handler may be arbitrarily slow or never return.
SpecLive == Spec /\ \A t \in Tasks : WF_vars(TaskStep(t))


(***************************************************************************)
(* Claims about MemoryRegistry.                                            *)
(***************************************************************************)
\* Task t has returned Ok from a call of operation op.
ReturnedOk(t, op) ==
    pc[t] = "idle" /\ call[t].op = op /\ ret[t].status = Ok

\* The mutation of task t's last call is the latest one of instance_id id.
LatestOn(t, id) == applied[id] = event[t].seq

\* C1: after register_manifest(m) has returned Ok, and as long as no other
\* mutation of m.instance_id has been applied, get_manifest(m.instance_id)
\* returns m and m is in list_manifests(m.service_name) and in
\* list_manifests(""), whether or not an entry existed before.
C1_RegisterThenGet ==
    \A t \in Tasks :
        LET m == call[t].manifest
        IN  (ReturnedOk(t, "register_manifest") /\ LatestOn(t, m.instance_id))
            => /\ GetManifest(manifests, m.instance_id)
                    = [status |-> Ok, value |-> m]
               /\ m \in ListManifests(manifests, m.service_name)
               /\ m \in ListManifests(manifests, "")

\* C1 witness: a register_manifest that replaced the entry another task had
\* registered under the same instance_id has returned Ok.
C1_Witness ==
    \E t, u \in Tasks :
        /\ ReturnedOk(t, "register_manifest")
        /\ ReturnedOk(u, "register_manifest")
        /\ call[t].manifest.instance_id = call[u].manifest.instance_id
        /\ call[t].manifest # call[u].manifest
        /\ event[t].seq = event[u].seq + 1
        /\ LatestOn(t, call[t].manifest.instance_id)

\* C2: after delete_manifest(id) has returned Ok, and as long as no later
\* mutation of id has been applied, get_manifest(id) returns ManifestNotFound
\* and no list_manifests result holds a manifest with that instance_id.
C2_DeleteThenNotFound ==
    \A t \in Tasks :
        LET id == call[t].instance_id
        IN  (ReturnedOk(t, "delete_manifest") /\ LatestOn(t, id))
            => /\ GetManifest(manifests, id) = ManifestNotFound
               /\ \A k \in WatchKeys :
                    \A m \in ListManifests(manifests, k) : m.instance_id # id

\* C2 witness: a delete_manifest has returned Ok while another instance is
\* still registered.
C2_Witness ==
    \E t \in Tasks :
        /\ ReturnedOk(t, "delete_manifest")
        /\ LatestOn(t, call[t].instance_id)
        /\ DOMAIN manifests # {}

\* C3: every watcher receives the events of one instance_id in the order
\* in which their mutations were applied to the manifest map, for the
\* mutations applied after it subscribed.
C3_EventsInMutationOrder ==
    \A w \in WatcherIds :
        \A i, j \in 1..Len(chan[w]) :
            ( /\ i < j
              /\ chan[w][i].manifest.instance_id = chan[w][j].manifest.instance_id
              /\ chan[w][i].seq > subAt[w]
              /\ chan[w][j].seq > subAt[w] )
            => chan[w][i].seq < chan[w][j].seq

EventTypeOf(op) ==
    CASE op = "register_manifest" -> "Added"
      [] op = "update_manifest" -> "Updated"
      [] op = "delete_manifest" -> "Removed"

\* Task t has returned an error from a mutating call.
ReturnedErr(t) ==
    /\ pc[t] = "idle"
    /\ call[t].op \in MutatingOps
    /\ ret[t].status # Ok

\* A mutating call that returned Ok has called notify_watchers once, with
\* an event of its type that carries the manifest of the call; one that
\* returned an error has not called it and has built no event; and
\* notify_watchers is never entered before the call has changed the map.
C4_State ==
    \A t \in Tasks :
        /\ (\E op \in MutatingOps : ReturnedOk(t, op))
             => /\ notified[t] = 1
                /\ event[t].event_type = EventTypeOf(call[t].op)
                /\ event[t].seq \in 1..nMut
                /\ call[t].op # "delete_manifest"
                     => event[t].manifest = call[t].manifest
                /\ call[t].op = "delete_manifest"
                     => event[t].manifest.instance_id = call[t].instance_id
        /\ ReturnedErr(t) => (notified[t] = 0 /\ event[t] = NoEvent)
        /\ (call[t].op \in MutatingOps /\ notified[t] > 0)
             => event[t] # NoEvent

\* The step that changes the map stores the manifest of the event (delete:
\* removes it), and every send puts the event of a task that is in
\* notify_watchers, after its map change, at the end of one channel.
C4_Step ==
    /\ \A t \in Tasks :
         (event[t] = NoEvent /\ event'[t] # NoEvent)
           => LET id == event'[t].manifest.instance_id
              IN  IF call[t].op = "delete_manifest"
                  THEN /\ id \in DOMAIN manifests
                       /\ manifests[id] = event'[t].manifest
                       /\ id \notin DOMAIN manifests'
                  ELSE /\ id \in DOMAIN manifests'
                       /\ manifests'[id] = event'[t].manifest
    /\ \A w \in WatcherIds :
         chan'[w] # chan[w]
           => \E t \in Tasks :
                /\ pc[t] = "send"
                /\ call[t].op \in MutatingOps
                /\ event[t].seq \in 1..nMut
                /\ chan'[w] = Append(chan[w], event[t])

\* C4: a register_manifest, update_manifest or delete_manifest call that
\* returns Ok sends exactly one event, of type Added, Updated or Removed
\* respectively, carrying the stored (for delete: the removed) manifest,
\* and only after the manifest map has been changed; a call that returns an
\* error sends no event.
C4_OneEventAfterChange == [](C4_State) /\ [][C4_Step]_vars

\* C4 witness: an update_manifest has returned Ok and its event is in a
\* watcher's channel.
C4_Witness ==
    \E t \in Tasks, w \in WatcherIds :
        /\ ReturnedOk(t, "update_manifest")
        /\ \E i \in 1..Len(chan[w]) : chan[w][i] = event[t]

\* The number of times the event of mutation number seq is in channel w.
Copies(w, seq) == Cardinality({ i \in 1..Len(chan[w]) : chan[w][i].seq = seq })

\* Channel w was registered under the name of the event's service or under "".
Subscribed(w, ev) == subKey[w] \in {ev.manifest.service_name, ""}

\* C5: an event of a manifest with service_name S reaches every watcher
\* registered under S or under "" exactly once, and no watcher registered
\* under another name: no channel holds an event twice or an event of a
\* service it is not subscribed to, and when the mutating call has returned
\* Ok every channel that was registered when the call began, is still
\* registered and has a live receiver holds the event once if it is
\* subscribed and not at all otherwise.
C5_FanOutExactlyOnce ==
    /\ \A w \in WatcherIds :
         \A i \in 1..Len(chan[w]) :
             /\ Copies(w, chan[w][i].seq) = 1
             /\ Subscribed(w, chan[w][i])
    /\ \A t \in Tasks :
         (\E op \in MutatingOps : ReturnedOk(t, op))
           => \A w \in seen[t] \cap Registered(watchers) :
                handler[w] # "panicked"
                  => Copies(w, event[t].seq)
                       = (IF Subscribed(w, event[t]) THEN 1 ELSE 0)

\* C5 witness: two watchers at once, one under the service name and one
\* under "", hold the event of a call that has returned Ok.
C5_Witness ==
    \E t \in Tasks, w, x \in Registered(watchers) :
        /\ \E op \in MutatingOps : ReturnedOk(t, op)
        /\ subKey[w] = event[t].manifest.service_name
        /\ subKey[x] = ""
        /\ Copies(w, event[t].seq) = 1
        /\ Copies(x, event[t].seq) = 1

\* Task t takes a step of its call.
Steps(t) == pc[t] # "idle" /\ (pc'[t] # pc[t] \/ targets'[t] # targets[t])

\* Calls that began after a close() had returned have failed with
\* BackendUnavailable (close: returned Ok); if no call was in flight when
\* close() returned, the watcher list is empty.
C6_State ==
    /\ \A t \in Tasks :
         (pc[t] = "idle" /\ late[t])
           => /\ call[t].op \in ChecksClosed => ret[t] = BackendUnavailable
              /\ call[t].op = "close" => ret[t] = Result(Ok)
    /\ closeDone => closed
    /\ (closeDone /\ ~overlap) => Registered(watchers) = {}

\* A call that began after a close() had returned changes neither the maps
\* nor the watcher list and sends nothing, and health() returns Ok exactly
\* when closed is false.
C6_Step ==
    \A t \in Tasks :
        /\ (Steps(t) /\ late[t] /\ call[t].op \in ChecksClosed \cup {"close"})
             => (UNCHANGED << manifests, schemas, watchers, closed, chan >>
                 /\ pc'[t] = "idle")
        /\ (Steps(t) /\ call[t].op = "health")
             => (ret'[t] = IF closed THEN BackendUnavailable ELSE Result(Ok))

C7_NoEffectAfterClose ==
    [][ closeDone =>
          \A t \in Tasks :
              (Steps(t) /\ call[t].op \in ChecksClosed)
                => UNCHANGED << manifests, schemas, watchers >> ]_vars

\* Task t is in a register_manifest or update_manifest call whose manifest
\* fails validate().
InvalidCall(t) ==
    /\ call[t].op \in {"register_manifest", "update_manifest"}
    /\ validate(call[t].manifest) # Ok

\* C8: a register_manifest(m) or update_manifest(m) call for which
\* m.validate() fails returns the validation error (on a closed registry
\* the call has failed before, with BackendUnavailable), leaves the manifest
\* map, the schema map and the watcher list as they were and sends no event.
C8_InvalidManifestRejected ==
    /\ [](\A t \in Tasks :
            (InvalidCall(t) /\ pc[t] = "idle")
              => /\ ret[t] \in {Result(validate(call[t].manifest)),
                               BackendUnavailable}
                 /\ notified[t] = 0
                 /\ event[t] = NoEvent)
    /\ [][\A t \in Tasks :
            (InvalidCall(t) /\ Steps(t))
              => /\ UNCHANGED << manifests, schemas, watchers, chan >>
                 /\ pc'[t] = "idle"
                 /\ ~closed => ret'[t] = Result(validate(call[t].manifest))]_vars

\* C8 witness: on an open registry with a manifest and a watcher, an
\* update_manifest with an invalid manifest has returned its validation
\* error.
C8_Witness ==
    \E t \in Tasks :
        /\ InvalidCall(t) /\ pc[t] = "idle"
        /\ call[t].op = "update_manifest"
        /\ ret[t] = Result(validate(call[t].manifest))
        /\ DOMAIN manifests # {}
        /\ Registered(watchers) # {}

\* C9: on an open registry, update_manifest(m) with a valid m whose
\* instance_id is not in the manifest map, and delete_manifest(id) with id
\* not in the map, return ManifestNotFound, leave the map unchanged and
\* send no event.
C9_MissingManifestRejected ==
    /\ [](\A t \in Tasks :
            (pc[t] = "idle" /\ call[t].op \in {"update_manifest", "delete_manifest"}
               /\ ret[t] = ManifestNotFound)
              => (notified[t] = 0 /\ event[t] = NoEvent))
    /\ [][\A t \in Tasks :
            LET id == IF call[t].op = "update_manifest"
                      THEN call[t].manifest.instance_id
                      ELSE call[t].instance_id
            IN  ( /\ Steps(t)
                  /\ pc[t] = "write_manifests"
                  /\ call[t].op \in {"update_manifest", "delete_manifest"}
                  /\ id \notin DOMAIN manifests )
                => /\ pc'[t] = "idle"
                   /\ ret'[t] = ManifestNotFound
                   /\ UNCHANGED << manifests, schemas, watchers, chan >>]_vars

\* C9 witness: with another instance registered and a watcher subscribed,
\* an update_manifest of a valid manifest has returned ManifestNotFound.
C9_Witness ==
    \E t \in Tasks :
        /\ pc[t] = "idle"
        /\ call[t].op = "update_manifest"
        /\ ret[t] = ManifestNotFound
        /\ DOMAIN manifests # {}
        /\ Registered(watchers) # {}

\* C10: a register_manifest, update_manifest or delete_manifest call never
\* waits for a watcher's handler: whatever the receiver tasks do (run, hang
\* in on_change, or end and close the channel), every call that has begun,
\* mutating or not, returns.
C10_CallsReturn == \A t \in Tasks : (pc[t] # "idle") ~> (pc[t] = "idle")

\* C10 witness: a handler hangs in on_change, and a mutating call whose
\* event is behind it in the channel, never to be handled, has returned Ok.
C10_Witness ==
    \E t \in Tasks, w \in WatcherIds :
        /\ handler[w] = "hung"
        /\ delivered[w] < Len(chan[w])
        /\ \E op \in MutatingOps : ReturnedOk(t, op)
        /\ chan[w][Len(chan[w])] = event[t]

(***************************************************************************)
(* Part 2: Merger::merge (src/merger/mod.rs, src/merger/openapi.rs).       *)
(*                                                                         *)
(* A String of the merger is the sequence of its pieces (<<"/", "data">>   *)
(* is "/data"), so that format! is concatenation and two strings are equal *)
(* exactly when their sequences are.  No piece is a prefix of another.     *)
(* A HashMap is a function on its key set; its iteration order is free.    *)
(***************************************************************************)
MaxServices == 2       \* services passed to one merge call

\* The verbs of a PathItem, in the order apply_operation_prefixes visits them.
VerbOrder ==
    << "get", "post", "put", "delete", "patch", "options", "head", "trace" >>
Verbs == { VerbOrder[i] : i \in 1..Len(VerbOrder) }

\* Option::or.
Or(a, b) == IF a.some THEN a ELSE b

\* HashMap::extend: the entries of m2 replace those of m1.
MapExtend(m1, m2) ==
    [k \in (DOMAIN m1) \cup (DOMAIN m2) |->
        IF k \in DOMAIN m2 THEN m2[k] ELSE m1[k]]

\* The (key, value) pairs of a map with every key n replaced by keyOf[n],
\* collected into a HashMap.
Rekey(map, keyOf) ==
    [k \in { keyOf[n] : n \in DOMAIN map } |->
        map[CHOOSE n \in DOMAIN map : keyOf[n] = k]]

Min(S) == CHOOSE x \in S : \A y \in S : x <= y

\* merge_path_items: Option::or keeps the receiver when it is Some.
merge_path_items(existing, new) ==
    [ summary     |-> Or(new.summary, existing.summary),
      description |-> Or(new.description, existing.description),
      get         |-> Or(new.get, existing.get),
      post        |-> Or(new.post, existing.post),
      put         |-> Or(new.put, existing.put),
      delete      |-> Or(new.delete, existing.delete),
      patch       |-> Or(new.patch, existing.patch),
      options     |-> Or(new.options, existing.options),
      head        |-> Or(new.head, existing.head),
      trace       |-> Or(new.trace, existing.trace),
      parameters  |-> existing.parameters \o new.parameters,
      extensions  |-> MapExtend(existing.extensions, new.extensions) ]

\* A faulty variant: the path is mounted at the root whatever the strategy.
apply_mount_strategy_root(path, manifest) == path

\* apply_mount_strategy: format!("/{}{}", ..) per MountStrategy.
apply_mount_strategy(path, manifest) ==
    LET routing == manifest.routing
    IN  CASE routing.strategy = "root" -> path
          [] routing.strategy = "instance" ->
               << "/" >> \o manifest.instance_id \o path
          [] routing.strategy = "service" ->
               << "/" >> \o manifest.service_name \o path
          [] routing.strategy = "versioned" ->
               << "/" >> \o manifest.service_name \o << "/" >>
                  \o manifest.service_version \o path
          [] routing.strategy = "custom" ->
               IF routing.base_path.some
               THEN routing.base_path.v \o path
               ELSE path
          [] routing.strategy = "subdomain" -> path

apply_routing(paths, manifest) ==
    Rekey(paths, [path \in DOMAIN paths |->
                     apply_mount_strategy(path, manifest)])

\* format!("{prefix}_{name}")
Prefixed(prefix, name) == prefix \o << "_" >> \o name

prefix_component_names(components, prefix) ==
    IF prefix = << >> THEN components
    ELSE LET rename(map) ==
                 Rekey(map, [name \in DOMAIN map |-> Prefixed(prefix, name)])
         IN  [ schemas          |-> rename(components.schemas),
               responses        |-> rename(components.responses),
               parameters       |-> rename(components.parameters),
               request_bodies   |-> rename(components.request_bodies),
               security_schemes |-> components.security_schemes ]

\* The descriptors of type openapi, by index.
OpenAPIDescriptors(manifest) ==
    { i \in 1..Len(manifest.schemas) :
        manifest.schemas[i].schema_type = "openapi" }

\* should_include_in_merge: the first openapi descriptor decides.
should_include_in_merge(schema) ==
    LET found == OpenAPIDescriptors(schema.manifest)
    IN  IF found = {} THEN FALSE
        ELSE LET metadata == schema.manifest.schemas[Min(found)].metadata
             IN  IF /\ metadata.some
                    /\ metadata.v.openapi.some
                    /\ metadata.v.openapi.v.composition.some
                 THEN metadata.v.openapi.v.composition.v.include_in_merged
                 ELSE TRUE

\* get_composition_config: the first openapi descriptor that has
\* metadata.openapi gives the (optional) composition.
get_composition_config(manifest) ==
    LET found == { i \in OpenAPIDescriptors(manifest) :
                     /\ manifest.schemas[i].metadata.some
                     /\ manifest.schemas[i].metadata.v.openapi.some }
    IN  IF found = {} THEN NoneOpt
        ELSE manifest.schemas[Min(found)].metadata.v.openapi.v.composition

get_conflict_strategy(config, comp_config) ==
    IF comp_config.some THEN comp_config.v.conflict_strategy
    ELSE config.default_conflict_strategy

get_component_prefix(manifest, comp_config) ==
    IF comp_config.some /\ comp_config.v.component_prefix.some
    THEN comp_config.v.component_prefix.v
    ELSE manifest.service_name

get_tag_prefix(manifest, comp_config) ==
    IF comp_config.some /\ comp_config.v.tag_prefix.some
    THEN comp_config.v.tag_prefix.v
    ELSE manifest.service_name

get_operation_id_prefix(manifest, comp_config) ==
    IF comp_config.some /\ comp_config.v.operation_id_prefix.some
    THEN comp_config.v.operation_id_prefix.v
    ELSE manifest.service_name

Conflict(conflict_type, item, services, resolution, strategy) ==
    [ conflict_type |-> conflict_type,
      item          |-> item,
      services      |-> services,
      resolution    |-> resolution,
      strategy      |-> strategy ]

\* The closure apply_to_op of apply_operation_prefixes, on one verb.  acc
\* holds the item, seen_operation_ids and result.conflicts.  The fields of
\* an Operation it does not touch are left out of the model.
apply_to_op(acc, verb, op_id_prefix, tag_prefix, service_name) ==
    IF ~acc.item[verb].some THEN acc
    ELSE
      LET operation == acc.item[verb].v
          has_id == operation.operation_id.some
          original_id == operation.operation_id.v
          new_id == IF op_id_prefix # << >>
                    THEN Prefixed(op_id_prefix, original_id)
                    ELSE original_id
          conflicts ==
              IF has_id /\ new_id \in DOMAIN acc.seen
              THEN Append(acc.conflicts,
                          Conflict("OperationID", original_id,
                                   << acc.seen[new_id], service_name >>,
                                   << "Prefixed to " >> \o new_id, "prefix"))
              ELSE acc.conflicts
          tags == IF tag_prefix # << >>
                  THEN [i \in 1..Len(operation.tags) |->
                          Prefixed(tag_prefix, operation.tags[i])]
                  ELSE operation.tags
      IN  [ item |-> [acc.item EXCEPT ![verb] =
                        Some([ operation_id |-> IF has_id THEN Some(new_id)
                                                ELSE operation.operation_id,
                               tags |-> tags ])],
            seen |-> IF has_id THEN MapInsert(acc.seen, new_id, service_name)
                     ELSE acc.seen,
            conflicts |-> conflicts ]

RECURSIVE apply_to_ops(_, _, _, _, _)
apply_to_ops(acc, i, op_id_prefix, tag_prefix, service_name) ==
    IF i > Len(VerbOrder) THEN acc
    ELSE apply_to_ops(apply_to_op(acc, VerbOrder[i], op_id_prefix,
                                  tag_prefix, service_name),
                      i + 1, op_id_prefix, tag_prefix, service_name)

\* apply_operation_prefixes: get, post, put, delete, patch, options, head,
\* trace in this order; ids is seen_operation_ids, result is result.conflicts.
apply_operation_prefixes(item, id_prefix, tag_prefix, service_name, ids, result) ==
    apply_to_ops([item |-> item, seen |-> ids, conflicts |-> result],
                 1, id_prefix, tag_prefix, service_name)

(***************************************************************************)
(* Inputs of merge.                                                        *)
(***************************************************************************)
Operation(operation_id, tags) ==
    [operation_id |-> Some(<< operation_id >>), tags |-> tags]

\* A PathItem as parse_path_item builds it, with the given get and post.
PathItem(get, post) ==
    [ summary     |-> NoneOpt,
      description |-> NoneOpt,
      get         |-> get,
      post        |-> post,
      put         |-> NoneOpt,
      delete      |-> NoneOpt,
      patch       |-> NoneOpt,
      options     |-> NoneOpt,
      head        |-> NoneOpt,
      trace       |-> NoneOpt,
      parameters  |-> << >>,
      extensions  |-> << >> ]

Components(schema_map, scheme_map) ==
    [ schemas          |-> schema_map,
      responses        |-> << >>,
      parameters       |-> << >>,
      request_bodies   |-> << >>,
      security_schemes |-> scheme_map ]

Tag(name, description) == [name |-> << name >>, description |-> description]

\* The parts of an OpenAPISpec that merge reads.
OpenAPISpec(paths, components, tags) ==
    [paths |-> paths, components |-> components, tags |-> tags]

\* A raw schema: the JSON members parse_openapi_schema looks for.
RawSchema(openapi, info, spec) ==
    [openapi |-> openapi, info |-> info, spec |-> spec]

\* parse_openapi_schema: Err when "openapi" or "info" is missing.
parse_openapi_schema(raw) ==
    IF ~raw.openapi.some THEN [ok |-> FALSE, e |-> "missing openapi version"]
    ELSE IF ~raw.info.some THEN [ok |-> FALSE, e |-> "missing or invalid info"]
    ELSE [ok |-> TRUE, v |-> raw.spec]

DataPath == << "/", "data" >>

SpecGet ==
    OpenAPISpec(
        DataPath :> PathItem(Some(Operation("getData", << << "t1" >> >>)),
                             NoneOpt),
        Some(Components(<< "User" >> :> "u1", << "key" >> :> "k1")),
        << Tag("t1", NoneOpt) >>)

SpecGetPost ==
    OpenAPISpec(
        DataPath :> PathItem(Some(Operation("getData", << << "t1" >> >>)),
                             Some(Operation("postData", << >>))),
        Some([Components(<< "User" >> :> "u2", << "key" >> :> "k2")
                 EXCEPT !.responses = << "NotFound" >> :> "r2"]),
        << Tag("t1", Some("d")), Tag("t2", NoneOpt) >>)

SpecDeep ==
    OpenAPISpec(
        << "/", "x", "/", "data" >> :>
            PathItem(Some(Operation("getX", << >>)), NoneOpt),
        NoneOpt, << >>)

\* A component schema, no security scheme and no tag.
SpecSchemaOnly ==
    OpenAPISpec(
        DataPath :> PathItem(Some(Operation("listData", << >>)), NoneOpt),
        Some(Components(<< "User" >> :> "u3", << >>)),
        << >>)

\* Two paths, the second one already under "/a".
SpecTwoPaths ==
    OpenAPISpec(
        (DataPath :> PathItem(Some(Operation("getData", << >>)), NoneOpt))
        @@ (<< "/", "a", "/", "data" >> :>
              PathItem(NoneOpt, Some(Operation("postData", << >>)))),
        NoneOpt, << >>)

CompositionConfig(include_in_merged, conflict_strategy) ==
    [ include_in_merged   |-> include_in_merged,
      component_prefix    |-> NoneOpt,
      tag_prefix          |-> NoneOpt,
      operation_id_prefix |-> NoneOpt,
      conflict_strategy   |-> conflict_strategy ]

\* A descriptor with metadata.openapi.composition = composition.
Composed(composition) ==
    [ schema_type |-> "openapi",
      metadata    |-> Some([openapi |-> Some([composition |-> composition])]) ]

Plain(schema_type) == [schema_type |-> schema_type, metadata |-> NoneOpt]

ServiceManifest(service_name, instance_id, routing, descriptors) ==
    [ new_manifest(service_name, << "v1" >>, instance_id)
        EXCEPT !.routing = routing, !.schemas = descriptors ]

Routing(strategy) == [strategy |-> strategy, base_path |-> NoneOpt]

ValidRaw(spec) == RawSchema(Some("3.1.0"), Some("info"), spec)

\* ServiceSchema with the schema already parsed.
Parsed(manifest, spec) ==
    [manifest |-> manifest, schema |-> ValidRaw(spec), parsed |-> Some(spec)]

\* ServiceSchema still to be parsed.
Unparsed(manifest, raw) ==
    [manifest |-> manifest, schema |-> raw, parsed |-> NoneOpt]

ServicePool ==
    LET a == << "a" >>
        b == << "b" >>
        i1 == << "i1" >>
        i2 == << "i2" >>
        openapi == << Plain("openapi") >>
    IN  { \* root-mounted services that share "/data"
          Parsed(ServiceManifest(a, i1, Routing("root"), openapi), SpecGet),
          Unparsed(ServiceManifest(b, i2, Routing("root"), openapi),
                   ValidRaw(SpecGetPost)),
          Parsed(ServiceManifest(a, i2, Routing("root"), openapi),
                 SpecGetPost),
          Parsed(ServiceManifest(a, i2, Routing("root"), openapi),
                 SpecTwoPaths),
          \* the composition of the descriptor overrides the configuration
          Parsed(ServiceManifest(b, i2, Routing("root"),
                     << Composed(Some(CompositionConfig(TRUE, "error"))) >>),
                 SpecGetPost),
          \* the default mount strategy
          Parsed(ServiceManifest(b, i1, DefaultRouting, openapi), SpecDeep),
          Parsed(ServiceManifest(a, << "i1", "/", "x" >>, DefaultRouting,
                                 openapi), SpecGet),
          Parsed(ServiceManifest(a, i2, DefaultRouting, openapi),
                 SpecSchemaOnly),
          \* the other mount strategies
          Parsed(ServiceManifest(b, i2, Routing("service"), openapi), SpecGet),
          Parsed(ServiceManifest(b, i2, Routing("versioned"), openapi),
                 SpecGet),
          Parsed(ServiceManifest(b, i2,
                     [strategy |-> "custom",
                      base_path |-> Some(<< "/", "mnt" >>)], openapi),
                 SpecGet),
          Parsed(ServiceManifest(b, i2, Routing("custom"), openapi), SpecGet),
          Parsed(ServiceManifest(b, i2, Routing("subdomain"), openapi),
                 SpecGet),
          \* services that are not merged
          Parsed(ServiceManifest(b, i2, Routing("root"),
                     << Composed(Some(CompositionConfig(FALSE, "prefix"))) >>),
                 SpecGet),
          Parsed(ServiceManifest(b, i2, Routing("root"), << Plain("grpc") >>),
                 SpecGet),
          Parsed(ServiceManifest(b, i2, Routing("root"),
                     << Composed(Some(CompositionConfig(FALSE, "prefix"))),
                        Plain("openapi") >>),
                 SpecGet),
          Unparsed(ServiceManifest(b, i2, Routing("root"), openapi),
                   RawSchema(NoneOpt, Some("info"), SpecGet)) }

RECURSIVE ListsUpTo(_, _)
ListsUpTo(S, n) ==
    IF n = 0 THEN { << >> }
    ELSE LET shorter == ListsUpTo(S, n - 1)
         IN  shorter \cup { Append(l, x) : l \in shorter, x \in S }

ConflictStrategies == {"prefix", "error", "skip", "overwrite", "merge"}

\* MergerConfig: default() has include_service_tags and sort_output set.
MergerConfigs ==
    { [ default_conflict_strategy |-> s,
        include_service_tags      |-> t,
        sort_output               |-> TRUE ] :
      s \in ConflictStrategies, t \in BOOLEAN }

(***************************************************************************)
(* merge as a state machine: one step per iteration of its loops.          *)
(***************************************************************************)
EmptyComponents == Components(<< >>, << >>)

\* `let mut result = MergeResult { .. }`
EmptyResult ==
    [ spec |-> [paths |-> << >>, components |-> EmptyComponents,
                tags |-> << >>],
      included_services |-> << >>,
      excluded_services |-> << >>,
      conflicts         |-> << >>,
      warnings          |-> << >> ]

\* `let mut seen_paths .. seen_security_schemes`
EmptySeen ==
    [ paths |-> << >>, components |-> << >>, operation_ids |-> << >>,
      tags |-> << >>, security_schemes |-> << >> ]

NoResult == [spec |-> "dropped"]
NoStep == [step |-> "none"]

InitMerge ==
    /\ InitRegistry
    /\ ManifestOff
    /\ GatewayOff
    /\ StorageOff
    /\ mConfig \in MergerConfigs
    /\ mSchemas \in ListsUpTo(ServicePool, MaxServices)
    /\ mIdx = 0
    /\ mPhase = "call"
    /\ mTodo = {}
    /\ mResult = << >>
    /\ mSeen = << >>
    /\ mRet = "none"
    /\ mHist = NoStep

\* schema.parsed, after `if schema.parsed.is_none() { parse .. }`.
ParsedSchema(schema) ==
    IF schema.parsed.some THEN [ok |-> TRUE, v |-> schema.parsed.v]
    ELSE parse_openapi_schema(schema.schema)

RoutedPaths(schema) ==
    apply_routing(ParsedSchema(schema).v.paths, schema.manifest)

PrefixedComponents(schema) ==
    prefix_component_names(
        ParsedSchema(schema).v.components.v,
        get_component_prefix(schema.manifest,
                             get_composition_config(schema.manifest)))

Strategy(schema) ==
    get_conflict_strategy(mConfig, get_composition_config(schema.manifest))

\* The loops of one service, in the order of the source.
PhaseOrder == << "paths", "schemas", "others", "security", "tags" >>

PhaseIndex(phase) == CHOOSE i \in 1..Len(PhaseOrder) : PhaseOrder[i] = phase

\* What the loop of a phase iterates over.
Keys(phase, schema) ==
    LET parsed == ParsedSchema(schema).v
    IN  CASE phase = "paths" -> DOMAIN RoutedPaths(schema)
          [] phase = "schemas" ->
               IF parsed.components.some
               THEN DOMAIN PrefixedComponents(schema).schemas ELSE {}
          [] phase = "others" ->
               IF /\ parsed.components.some
                  /\ \/ DOMAIN parsed.components.v.responses # {}
                     \/ DOMAIN parsed.components.v.parameters # {}
                     \/ DOMAIN parsed.components.v.request_bodies # {}
               THEN { << "others" >> } ELSE {}
          [] phase = "security" ->
               IF parsed.components.some
               THEN DOMAIN PrefixedComponents(schema).security_schemes
               ELSE {}
          [] phase = "tags" ->
               IF parsed.tags # << >> THEN { << "tags" >> } ELSE {}

\* The first loop from phase i on that has something to iterate, or the
\* next service.
RECURSIVE Enter(_, _)
Enter(i, schema) ==
    IF i > Len(PhaseOrder)
    THEN [phase |-> "service", todo |-> {}, idx |-> mIdx + 1]
    ELSE IF Keys(PhaseOrder[i], schema) # {}
         THEN [phase |-> PhaseOrder[i],
               todo |-> Keys(PhaseOrder[i], schema), idx |-> mIdx]
         ELSE Enter(i + 1, schema)

\* Control after the iteration on key k.
Goto(to) ==
    /\ mPhase' = to.phase
    /\ mTodo' = to.todo
    /\ mIdx' = to.idx

Continue(k) ==
    IF mTodo \ {k} # {}
    THEN Goto([phase |-> mPhase, todo |-> mTodo \ {k}, idx |-> mIdx])
    ELSE Goto(Enter(PhaseIndex(mPhase) + 1, mSchemas[mIdx]))

Outside ==
    UNCHANGED << registryVars, manifestVars, gatewayVars, storageVars, mConfig,
                 mSchemas >>

merge_call ==
    /\ mPhase = "call"
    /\ mResult' = EmptyResult
    /\ mSeen' = EmptySeen
    /\ Goto([phase |-> "service", todo |-> {}, idx |-> 1])
    /\ mHist' = [step |-> "call"]
    /\ UNCHANGED mRet
    /\ Outside

\* A faulty variant: the parse error is dropped without a warning.
parse_failed_silent(result, service_name, e) ==
    [result EXCEPT !.included_services = Append(@, service_name)]

\* The Err(e) arm of the parse step: the service is in included_services
\* already and gets one warning.
parse_failed(result, service_name, e) ==
    [result EXCEPT
       !.included_services = Append(@, service_name),
       !.warnings = Append(@, << "Failed to parse schema for " >>
                                 \o service_name \o << ": ", e >>)]

\* `for mut schema in schemas { .. }` up to the loop over the paths.
merge_service ==
    /\ mPhase = "service"
    /\ mIdx <= Len(mSchemas)
    /\ LET schema == mSchemas[mIdx]
           service_name == schema.manifest.service_name
           parsed == ParsedSchema(schema)
       IN  IF ~should_include_in_merge(schema)
           THEN /\ mResult' = [mResult EXCEPT !.excluded_services =
                                                 Append(@, service_name)]
                /\ Goto([phase |-> "service", todo |-> {}, idx |-> mIdx + 1])
                /\ mHist' = [step |-> "service", outcome |-> "excluded"]
           ELSE IF ~parsed.ok
           THEN /\ mResult' = parse_failed(mResult, service_name, parsed.e)
                /\ Goto([phase |-> "service", todo |-> {}, idx |-> mIdx + 1])
                /\ mHist' = [step |-> "service", outcome |-> "unparsed"]
           ELSE /\ mResult' = [mResult EXCEPT !.included_services =
                                                 Append(@, service_name)]
                /\ Goto(Enter(1, schema))
                /\ mHist' = [step |-> "service", outcome |-> "included"]
    /\ UNCHANGED << mSeen, mRet >>
    /\ Outside

\* Faulty variant: the path is not rewritten.
prefixed_path_same(service_name, path) == path

\* format!("/{service_name}{path}")
prefixed_path(service_name, path) == << "/" >> \o service_name \o path

Version(service_name) == service_name \o << " version" >>

\* `if let Some(existing_service) = seen_paths.get(&path) { .. }`: what is
\* to be done with the path item, under which key, and the conflicts after.
path_conflict(result, seen_paths, path, path_item, service_name, strategy) ==
    IF path \notin DOMAIN seen_paths
    THEN [outcome |-> "insert", path |-> path, path_item |-> path_item,
          conflicts |-> result.conflicts]
    ELSE
      LET existing_service == seen_paths[path]
          recorded(resolution) ==
              Append(result.conflicts,
                     Conflict("Path", path,
                              << existing_service, service_name >>,
                              resolution, strategy))
      IN  CASE strategy = "error" ->
                 [outcome |-> "err", path |-> path, path_item |-> path_item,
                  conflicts |-> result.conflicts]
            [] strategy = "skip" ->
                 [outcome |-> "skip", path |-> path, path_item |-> path_item,
                  conflicts |->
                      recorded(<< "Skipped path from " >> \o service_name)]
            [] strategy = "overwrite" ->
                 [outcome |-> "insert", path |-> path,
                  path_item |-> path_item,
                  conflicts |->
                      recorded(<< "Overwritten with " >>
                                 \o Version(service_name))]
            [] strategy = "prefix" ->
                 [outcome |-> "insert",
                  path |-> prefixed_path(service_name, path),
                  path_item |-> path_item,
                  conflicts |->
                      recorded(<< "Prefixed to " >>
                                 \o prefixed_path(service_name, path))]
            [] strategy = "merge" ->
                 [outcome |-> "insert", path |-> path,
                  path_item |->
                      IF path \in DOMAIN result.spec.paths
                      THEN merge_path_items(result.spec.paths[path], path_item)
                      ELSE path_item,
                  conflicts |-> recorded(<< "Merged operations" >>)]

\* `return Err(..)`: the result built so far is dropped.
merge_fails ==
    /\ mRet' = "Err"
    /\ mResult' = NoResult
    /\ Goto([phase |-> "done", todo |-> {}, idx |-> mIdx])
    /\ UNCHANGED mSeen

\* One iteration of `for (mut path, mut path_item) in paths`.
merge_path ==
    /\ mPhase = "paths"
    /\ \E path \in mTodo :
         LET schema == mSchemas[mIdx]
             manifest == schema.manifest
             service_name == manifest.service_name
             comp_config == get_composition_config(manifest)
             strategy == Strategy(schema)
             c == path_conflict(mResult, mSeen.paths, path,
                                RoutedPaths(schema)[path], service_name,
                                strategy)
             p == apply_operation_prefixes(
                      c.path_item,
                      get_operation_id_prefix(manifest, comp_config),
                      get_tag_prefix(manifest, comp_config),
                      service_name, mSeen.operation_ids, c.conflicts)
         IN  /\ CASE c.outcome = "err" -> merge_fails
                  [] c.outcome = "skip" ->
                       /\ mResult' = [mResult EXCEPT !.conflicts = c.conflicts]
                       /\ Continue(path)
                       /\ UNCHANGED << mSeen, mRet >>
                  [] c.outcome = "insert" ->
                       /\ mResult' =
                            [mResult EXCEPT
                               !.spec.paths = MapInsert(@, c.path, p.item),
                               !.conflicts = p.conflicts]
                       /\ mSeen' =
                            [mSeen EXCEPT
                               !.paths = MapInsert(@, c.path, service_name),
                               !.operation_ids = p.seen]
                       /\ Continue(path)
                       /\ UNCHANGED mRet
             /\ mHist' = [step |-> "path", outcome |-> c.outcome,
                          service |-> mIdx, key |-> path, at |-> c.path,
                          hit |-> path \in DOMAIN mSeen.paths,
                          strategy |-> strategy]
    /\ Outside

\* One iteration of `for (name, schema_obj) in &prefixed.schemas`.
merge_schema ==
    /\ mPhase = "schemas"
    /\ \E name \in mTodo :
         LET schema == mSchemas[mIdx]
             service_name == schema.manifest.service_name
             strategy == Strategy(schema)
             schema_obj == PrefixedComponents(schema).schemas[name]
             hit == name \in DOMAIN mSeen.components
             conflicts ==
                 IF hit
                 THEN Append(mResult.conflicts,
                        Conflict("Component", name,
                                 << mSeen.components[name], service_name >>,
                                 IF strategy = "skip"
                                 THEN << "Skipped component from " >>
                                        \o service_name
                                 ELSE << "Overwritten with " >>
                                        \o Version(service_name),
                                 strategy))
                 ELSE mResult.conflicts
         IN  /\ IF hit /\ strategy = "skip"
                THEN /\ mResult' = [mResult EXCEPT !.conflicts = conflicts]
                     /\ UNCHANGED mSeen
                ELSE /\ mResult' =
                          [mResult EXCEPT
                             !.spec.components.schemas =
                                 MapInsert(@, name, schema_obj),
                             !.conflicts = conflicts]
                     /\ mSeen' = [mSeen EXCEPT !.components =
                                     MapInsert(@, name, service_name)]
             /\ Continue(name)
             /\ mHist' = [step |-> "schema", service |-> mIdx, key |-> name,
                          hit |-> hit, strategy |-> strategy]
    /\ UNCHANGED mRet
    /\ Outside

\* The loops over prefixed.responses, parameters and request_bodies.
merge_others ==
    /\ mPhase = "others"
    /\ LET prefixed == PrefixedComponents(mSchemas[mIdx])
       IN  mResult' =
             [mResult EXCEPT
                !.spec.components.responses = MapExtend(@, prefixed.responses),
                !.spec.components.parameters =
                    MapExtend(@, prefixed.parameters),
                !.spec.components.request_bodies =
                    MapExtend(@, prefixed.request_bodies)]
    /\ Continue(<< "others" >>)
    /\ mHist' = [step |-> "others", service |-> mIdx]
    /\ UNCHANGED << mSeen, mRet >>
    /\ Outside

\* format!("{service_name}_{name}")
prefixed_name(service_name, name) == Prefixed(service_name, name)

\* One iteration of `for (name, scheme) in &prefixed.security_schemes`.
merge_security_scheme ==
    /\ mPhase = "security"
    /\ \E name \in mTodo :
         LET schema == mSchemas[mIdx]
             service_name == schema.manifest.service_name
             strategy == Strategy(schema)
             scheme == PrefixedComponents(schema).security_schemes[name]
             hit == name \in DOMAIN mSeen.security_schemes
             recorded(resolution) ==
                 Append(mResult.conflicts,
                        Conflict("SecurityScheme", name,
                                 << mSeen.security_schemes[name],
                                    service_name >>,
                                 resolution, strategy))
             insert(key, conflicts) ==
                 /\ mResult' =
                      [mResult EXCEPT
                         !.spec.components.security_schemes =
                             MapInsert(@, key, scheme),
                         !.conflicts = conflicts]
                 /\ mSeen' = [mSeen EXCEPT !.security_schemes =
                                 MapInsert(@, key, service_name)]
                 /\ Continue(name)
                 /\ UNCHANGED mRet
         IN  /\ CASE ~hit -> insert(name, mResult.conflicts)
                  [] hit /\ strategy = "error" -> merge_fails
                  [] hit /\ strategy = "skip" ->
                       /\ mResult' =
                            [mResult EXCEPT !.conflicts =
                               recorded(<< "Skipped security scheme from " >>
                                          \o service_name)]
                       /\ Continue(name)
                       /\ UNCHANGED << mSeen, mRet >>
                  [] hit /\ strategy = "overwrite" ->
                       insert(name, recorded(<< "Overwritten with " >>
                                               \o Version(service_name)))
                  [] hit /\ strategy = "prefix" ->
                       insert(prefixed_name(service_name, name),
                              recorded(<< "Prefixed to " >>
                                  \o prefixed_name(service_name, name)))
                  [] hit /\ strategy = "merge" ->
                       insert(name,
                              recorded(<< "Merged (overwritten) with " >>
                                         \o Version(service_name)))
             /\ mHist' = [step |-> "security", service |-> mIdx,
                          key |-> name, hit |-> hit, strategy |-> strategy]
    /\ Outside

\* One iteration of `for mut tag in parsed.tags.clone()`.  acc holds
\* seen_tags and result.spec.tags.
merge_tag(acc, tag0, tag_prefix, config) ==
    LET tag == IF tag_prefix # << >> /\ config.include_service_tags
               THEN [tag0 EXCEPT !.name = Prefixed(tag_prefix, tag0.name)]
               ELSE tag0
    IN  IF tag.name \in DOMAIN acc.seen
        THEN LET existing == acc.seen[tag.name]
                 updated == [existing EXCEPT !.description = tag.description]
                 at == { i \in 1..Len(acc.tags) : acc.tags[i].name = tag.name }
             IN  IF tag.description.some /\ ~existing.description.some
                 THEN [ seen |-> MapInsert(acc.seen, tag.name, updated),
                        tags |-> IF at = {} THEN acc.tags
                                 ELSE [acc.tags EXCEPT ![Min(at)] = updated] ]
                 ELSE acc
        ELSE [ seen |-> MapInsert(acc.seen, tag.name, tag),
               tags |-> Append(acc.tags, tag) ]

RECURSIVE merge_tag_list(_, _, _, _)
merge_tag_list(acc, tags, tag_prefix, config) ==
    IF tags = << >> THEN acc
    ELSE merge_tag_list(merge_tag(acc, Head(tags), tag_prefix, config),
                        Tail(tags), tag_prefix, config)

\* `for mut tag in parsed.tags.clone() { .. }`
merge_tags ==
    /\ mPhase = "tags"
    /\ LET schema == mSchemas[mIdx]
           acc == merge_tag_list(
                      [seen |-> mSeen.tags, tags |-> mResult.spec.tags],
                      ParsedSchema(schema).v.tags,
                      get_tag_prefix(schema.manifest,
                                     get_composition_config(schema.manifest)),
                      mConfig)
       IN  /\ mResult' = [mResult EXCEPT !.spec.tags = acc.tags]
           /\ mSeen' = [mSeen EXCEPT !.tags = acc.seen]
    /\ Continue(<< "tags" >>)
    /\ mHist' = [step |-> "tags", service |-> mIdx]
    /\ UNCHANGED mRet
    /\ Outside

\* The byte order of the pieces that occur in tag names.
PieceRank(piece) ==
    CASE piece = "/" -> 1 [] piece = "_" -> 2 [] piece = "a" -> 3
      [] piece = "b" -> 4 [] piece = "i1" -> 5 [] piece = "i2" -> 6
      [] piece = "t1" -> 7 [] piece = "t2" -> 8 [] piece = "x" -> 9
      [] OTHER -> 10

\* String::cmp(a, b) is not Greater.
RECURSIVE StrLeq(_, _)
StrLeq(a, b) ==
    IF a = << >> THEN TRUE
    ELSE IF b = << >> THEN FALSE
    ELSE IF Head(a) = Head(b) THEN StrLeq(Tail(a), Tail(b))
    ELSE PieceRank(Head(a)) < PieceRank(Head(b))

\* Stable sort of the tags by name (Vec::sort_by).
RECURSIVE InsertTag(_, _)
InsertTag(sorted, tag) ==
    IF sorted = << >> THEN << tag >>
    ELSE IF StrLeq(Head(sorted).name, tag.name)
         THEN << Head(sorted) >> \o InsertTag(Tail(sorted), tag)
         ELSE << tag >> \o sorted

RECURSIVE SortTags(_)
SortTags(tags) ==
    IF tags = << >> THEN << >>
    ELSE InsertTag(SortTags(SubSeq(tags, 1, Len(tags) - 1)), tags[Len(tags)])

\* After the loop over the services: sort the tags and return Ok(result).
merge_finish ==
    /\ mPhase = "service"
    /\ mIdx > Len(mSchemas)
    /\ mResult' = IF mConfig.sort_output
                  THEN [mResult EXCEPT !.spec.tags = SortTags(@)]
                  ELSE mResult
    /\ mRet' = "Ok"
    /\ mPhase' = "done"
    /\ mHist' = [step |-> "finish"]
    /\ UNCHANGED << mSeen, mIdx, mTodo >>
    /\ Outside

NextMerge ==
    \/ merge_call
    \/ merge_service
    \/ merge_path
    \/ merge_schema
    \/ merge_others
    \/ merge_security_scheme
    \/ merge_tags
    \/ merge_finish

SpecMerge == InitMerge /\ [][NextMerge]_vars

(***************************************************************************)
(* Claims about Merger::merge.                                             *)
(***************************************************************************)
\* The conflicts a step has added to result.conflicts.
Added(before, after) == SubSeq(after, Len(before) + 1, Len(after))

\* The operations of both path items sit under the same verbs.
SameVerbs(item1, item2) == \A v \in Verbs : item1[v].some = item2[v].some

\* The merge loop has just handled a path that was already in seen_paths,
\* under the given strategy.
Collided(hist, strategy) ==
    hist.step = "path" /\ hist.hit /\ hist.strategy = strategy

\* C11: under the Prefix strategy, when the routed path of a service is
\* already in the merged paths, the step leaves the item under that path as
\* it was, inserts the service's item under "/<service_name><path>", and
\* records exactly one Path conflict, naming the earlier and the later
\* service, with resolution "Prefixed to /<service_name><path>".
C11_Step ==
    (mPhase = "paths" /\ Collided(mHist', "prefix")) =>
        LET path == mHist'.key
            schema == mSchemas[mIdx]
            service_name == schema.manifest.service_name
            new_path == << "/" >> \o service_name \o path
            added == Added(mResult.conflicts, mResult'.conflicts)
            paths_added == { i \in 1..Len(added) :
                               added[i].conflict_type = "Path" }
        IN  /\ path \in DOMAIN mResult'.spec.paths
            /\ mResult'.spec.paths[path] = mResult.spec.paths[path]
            /\ new_path \in DOMAIN mResult'.spec.paths
            /\ SameVerbs(mResult'.spec.paths[new_path],
                         ParsedSchema(schema).v.paths[
                             CHOOSE q \in DOMAIN ParsedSchema(schema).v.paths :
                                 apply_mount_strategy(q, schema.manifest)
                                     = path])
            /\ DOMAIN mResult'.spec.paths
                 = DOMAIN mResult.spec.paths \cup {new_path}
            /\ Cardinality(paths_added) = 1
            /\ \A i \in paths_added :
                 /\ added[i].item = path
                 /\ added[i].services = << mSeen.paths[path], service_name >>
                 /\ added[i].resolution = << "Prefixed to " >> \o new_path
                 /\ added[i].strategy = "prefix"

C11_PrefixKeepsBoth == [][C11_Step]_vars

\* C11 witness: the merge of two root-mounted services "a" and "b" that
\* both have "/data" has returned, with "/data" and "/b/data" in the result
\* and the Path conflict recorded.
C11_Witness ==
    /\ mRet = "Ok"
    /\ Len(mSchemas) = 2
    /\ mSchemas[1].manifest.service_name = << "a" >>
    /\ mSchemas[2].manifest.service_name = << "b" >>
    /\ mSchemas[1].parsed.some
    /\ DataPath \in DOMAIN mResult.spec.paths
    /\ mResult.spec.paths[DataPath].get.some
    /\ ~mResult.spec.paths[DataPath].post.some
    /\ << "/", "b", "/", "data" >> \in DOMAIN mResult.spec.paths
    /\ mResult.spec.paths[<< "/", "b", "/", "data" >>].post.some
    /\ \E i \in 1..Len(mResult.conflicts) :
         /\ mResult.conflicts[i].conflict_type = "Path"
         /\ mResult.conflicts[i].services = << << "a" >>, << "b" >> >>
         /\ mResult.conflicts[i].resolution
              = << "Prefixed to ", "/", "b", "/", "data" >>

\* The inclusion rule as the claim states it: some descriptor of type
\* openapi has no composition, or one with include_in_merged set.
SomeOpenAPIIncluded(manifest) ==
    \E i \in OpenAPIDescriptors(manifest) :
        LET metadata == manifest.schemas[i].metadata
        IN  \/ ~metadata.some
            \/ ~metadata.v.openapi.some
            \/ ~metadata.v.openapi.v.composition.some
            \/ metadata.v.openapi.v.composition.v.include_in_merged

\* The names of the services of the list that are (wanted = TRUE) or are
\* not (wanted = FALSE) to be included by that rule, in input order.
RECURSIVE NamesByRule(_, _)
NamesByRule(list, wanted) ==
    IF list = << >> THEN << >>
    ELSE LET rest == NamesByRule(Tail(list), wanted)
         IN  IF SomeOpenAPIIncluded(Head(list).manifest) = wanted
             THEN << Head(list).manifest.service_name >> \o rest
             ELSE rest

\* C12: when merge returns, every input service is in exactly one of
\* included_services and excluded_services, and it is included if and only
\* if its manifest has a descriptor of type openapi whose composition is
\* absent or has include_in_merged = true.
C12_InclusionRule ==
    mRet = "Ok" =>
        /\ mResult.included_services = NamesByRule(mSchemas, TRUE)
        /\ mResult.excluded_services = NamesByRule(mSchemas, FALSE)

\* C13: merge never returns Ok with a conflict in result.conflicts that was
\* recorded under the Error strategy.
C13_ErrorStrategyFails ==
    mRet = "Ok" =>
        \A i \in 1..Len(mResult.conflicts) :
            mResult.conflicts[i].strategy # "error"

\* C14: when the path loop is about to combine a path item with the one
\* already merged under the Merge strategy, merge_path_items(existing, new)
\* keeps, for every verb, the operation of the existing side where it has
\* one, and takes the new side's operation only where it has none.
C14_MergeKeepsExisting ==
    (mPhase = "paths" /\ Strategy(mSchemas[mIdx]) = "merge") =>
        \A path \in mTodo \cap DOMAIN mSeen.paths :
            LET existing == mResult.spec.paths[path]
                new == RoutedPaths(mSchemas[mIdx])[path]
                merged == merge_path_items(existing, new)
            IN  \A v \in Verbs :
                    IF existing[v].some THEN merged[v] = existing[v]
                    ELSE merged[v] = new[v]

\* What the mount strategies put in front of a path, as a table.
MountPrefix(manifest) ==
    [ root      |-> << >>,
      subdomain |-> << >>,
      instance  |-> << "/" >> \o manifest.instance_id,
      service   |-> << "/" >> \o manifest.service_name,
      versioned |-> << "/" >> \o manifest.service_name \o << "/" >>
                       \o manifest.service_version,
      custom    |-> IF manifest.routing.base_path.some
                    THEN manifest.routing.base_path.v
                    ELSE << >> ][manifest.routing.strategy]

\* The paths of a service as the merged document is to show them.
MountedPaths(schema) ==
    { MountPrefix(schema.manifest) \o path :
        path \in DOMAIN ParsedSchema(schema).v.paths }

IsPrefix(s, t) == Len(s) <= Len(t) /\ SubSeq(t, 1, Len(s)) = s

\* The services whose paths reach the merged document.
Contributing ==
    { i \in 1..Len(mSchemas) :
        should_include_in_merge(mSchemas[i]) /\ ParsedSchema(mSchemas[i]).ok }

NoPathConflictRecorded ==
    \A i \in 1..Len(mResult.conflicts) :
        mResult.conflicts[i].conflict_type # "Path"

\* The mapping half of C15: the key a step of the path loop looks up in
\* seen_paths is the service's path under its mount strategy, a path that
\* is not in seen_paths is inserted under that key, and a merge that
\* returns without a Path conflict holds exactly the mounted paths.
RoutedBeforeLookup ==
    /\ mHist.step = "path" =>
         /\ mHist.key \in MountedPaths(mSchemas[mHist.service])
         /\ (~mHist.hit) => (mHist.outcome = "insert" /\ mHist.at = mHist.key)
    /\ (mRet = "Ok" /\ NoPathConflictRecorded) =>
         DOMAIN mResult.spec.paths
           = UNION { MountedPaths(mSchemas[i]) : i \in Contributing }

\* Both services of a merge of two use the instance strategy.
TwoInstanceMounted ==
    /\ Len(mSchemas) = 2
    /\ \A i \in 1..2 : mSchemas[i].manifest.routing.strategy = "instance"

PathCollision == mHist.step = "path" /\ mHist.hit

\* C15 as stated: paths are rekeyed by the mount strategy before the
\* lookup, and two instance-mounted services with different instance_ids
\* never collide on a path.
C15_DifferentIdsNeverCollide ==
    /\ RoutedBeforeLookup
    /\ ( /\ TwoInstanceMounted
         /\ mSchemas[1].manifest.instance_id
              # mSchemas[2].manifest.instance_id ) => ~PathCollision

\* C15 (amended): paths are rekeyed by the mount strategy before the
\* lookup, and two instance-mounted services merged together never collide
\* on a path when neither instance_id is a prefix of the other.
C15_RoutedBeforeLookup ==
    /\ RoutedBeforeLookup
    /\ ( /\ TwoInstanceMounted
         /\ ~IsPrefix(mSchemas[1].manifest.instance_id,
                      mSchemas[2].manifest.instance_id)
         /\ ~IsPrefix(mSchemas[2].manifest.instance_id,
                      mSchemas[1].manifest.instance_id) ) => ~PathCollision

\* C15 witness: two instance-mounted services with instance_ids "i1" and
\* "i2" were merged; "/x/data" sits under "/i1/x/data", "/data" under
\* "/i2/data", and no Path conflict was recorded.
C15_Witness ==
    /\ mRet = "Ok"
    /\ TwoInstanceMounted
    /\ mSchemas[1].manifest.instance_id = << "i1" >>
    /\ mSchemas[2].manifest.instance_id = << "i2" >>
    /\ DOMAIN mResult.spec.paths
         = { << "/", "i1", "/", "x", "/", "data" >>,
             << "/", "i2", "/", "data" >> }
    /\ NoPathConflictRecorded

(***************************************************************************)
(* Part 3: the operations on one SchemaManifest (src/manifest.rs) and      *)
(* is_compatible (src/version.rs), called in any order on a manifest       *)
(* built by new_manifest.  `old` is a second manifest, the first argument  *)
(* of diff_manifests.                                                      *)
(***************************************************************************)
MaxOps == 5            \* operations applied in one behaviour
MaxSchemas == 2        \* descriptors pushed by add_schema in one behaviour

SchemaDescriptor(schema_type, hash) ==
    [ schema_type   |-> schema_type,
      spec_version  |-> "3.1.0",
      location      |-> [ location_type |-> "http",
                          url           |-> "http://s/openapi.json",
                          registry_path |-> None ],
      content_type  |-> "application/json",
      inline_schema |-> None,
      hash          |-> hash,
      metadata      |-> NoneOpt ]

\* The blocks p, q and r are lowercase hexadecimal digits; the block U
\* holds an uppercase letter.
LowerHexBlocks == { "p", "q", "r" }

\* Two descriptors of type openapi with different hashes, one of type grpc,
\* one whose hash has 128 characters, and one whose hash has 64 characters
\* that are not all lowercase hexadecimal digits.
Descriptors ==
    { SchemaDescriptor("openapi", << "p" >>),
      SchemaDescriptor("openapi", << "q" >>),
      SchemaDescriptor("grpc", << "r" >>),
      SchemaDescriptor("asyncapi", << "p", "q" >>),
      SchemaDescriptor("graphql", << "U" >>) }

Capabilities == { "rest", "grpc" }

\* Version strings given to is_compatible, as their '.'-separated segments.
Versions ==
    { << "1", "0", "0" >>, << "1", "0", "1" >>, << "1", "0", "x" >>,
      << "1", "1", "0" >>, << "2", "0", "0" >>, << "0", "0", "0" >>,
      << "1", "x", "0" >>, << "x", "0", "0" >>, << "1", "0" >>,
      << "1", "0", "0", "0" >>, << "" >> }

\* Version strings written into manifest.version.
ManifestVersions == { << "1", "0", "x" >>, << "2", "0", "0" >> }

\* Strings written into manifest.checksum by hand.
ForgedChecksums ==
    { << "invalid", << >> >>, Sha256Hex(<< "p" >>) }

add_schema(m, descriptor) ==
    [m EXCEPT !.schemas = Append(@, descriptor)]

contains(vec, x) == \E i \in 1..Len(vec) : vec[i] = x

\* A faulty variant: the capability is pushed without the contains check.
add_capability_push(m, cap) ==
    [m EXCEPT !.capabilities = Append(@, cap)]

add_capability(m, cap) ==
    IF ~contains(m.capabilities, cap)
    THEN [m EXCEPT !.capabilities = Append(@, cap)]
    ELSE m

\* A faulty variant: the checksum is left as it was.
update_checksum_stale(m) == m

\* update_checksum (updated_at is not modelled).
update_checksum(m) ==
    [m EXCEPT !.checksum = calculate_manifest_checksum(m)]

\* HashMap<SchemaType, &SchemaDescriptor> collected from schemas.iter(): a
\* later descriptor replaces an earlier one of the same type.
SchemasByType(m) ==
    LET types == { m.schemas[i].schema_type : i \in 1..Len(m.schemas) }
        last(t) == CHOOSE i \in 1..Len(m.schemas) :
                      /\ m.schemas[i].schema_type = t
                      /\ \A j \in 1..Len(m.schemas) :
                            m.schemas[j].schema_type = t => j <= i
    IN  [t \in types |-> m.schemas[last(t)]]

\* SchemaEndpoints: health is the one field the model carries.
Endpoints(m) == [health |-> m.health]

\* diff_manifests.  The vectors of the diff are filled in HashMap and
\* HashSet iteration order; the model holds their elements.
diff_manifests(old_manifest, new_manifest_) ==
    LET old_schemas == SchemasByType(old_manifest)
        new_schemas == SchemasByType(new_manifest_)
        old_caps == { old_manifest.capabilities[i] :
                        i \in 1..Len(old_manifest.capabilities) }
        new_caps == { new_manifest_.capabilities[i] :
                        i \in 1..Len(new_manifest_.capabilities) }
    IN  [ schemas_added |->
              { new_schemas[t] :
                  t \in (DOMAIN new_schemas) \ (DOMAIN old_schemas) },
          schemas_removed |->
              { old_schemas[t] :
                  t \in (DOMAIN old_schemas) \ (DOMAIN new_schemas) },
          schemas_changed |->
              { [ schema_type |-> t,
                  old_hash    |-> old_schemas[t].hash,
                  new_hash    |-> new_schemas[t].hash ] :
                  t \in { u \in (DOMAIN new_schemas) \cap (DOMAIN old_schemas) :
                            old_schemas[u].hash # new_schemas[u].hash } },
          capabilities_added   |-> new_caps \ old_caps,
          capabilities_removed |-> old_caps \ new_caps,
          endpoints_changed    |->
              Endpoints(old_manifest) # Endpoints(new_manifest_) ]

\* A faulty variant: the endpoints are not looked at.
has_changes_no_endpoints(diff) ==
    \/ diff.schemas_added # {}
    \/ diff.schemas_removed # {}
    \/ diff.schemas_changed # {}
    \/ diff.capabilities_added # {}
    \/ diff.capabilities_removed # {}

has_changes(diff) ==
    \/ diff.schemas_added # {}
    \/ diff.schemas_removed # {}
    \/ diff.schemas_changed # {}
    \/ diff.capabilities_added # {}
    \/ diff.capabilities_removed # {}
    \/ diff.endpoints_changed

\* The manifests diff_manifests compares the manifest with.
OldManifests ==
    { new_manifest("a", "v1", "i1"),
      new_manifest("a", "v2", "i1"),
      add_schema(add_capability(
          WithHealth(new_manifest("a", "v1", "i1"), "/health"), "rest"),
          SchemaDescriptor("openapi", << "p" >>)),
      add_schema(add_schema(new_manifest("a", "v1", "i1"),
          SchemaDescriptor("grpc", << "r" >>)),
          SchemaDescriptor("openapi", << "q" >>)) }

NoOp == [op |-> "none"]

InitManifest ==
    /\ InitRegistry
    /\ MergerOff
    /\ GatewayOff
    /\ StorageOff
    /\ mf = new_manifest("a", "v1", "i1")
    /\ old \in OldManifests
    /\ mfOps = 0
    /\ mfLast = NoOp
    /\ mfAdded = << >>

\* One more operation on the manifest: op(arg) returned result.
Applied(op, arg, result) ==
    /\ mfOps < MaxOps
    /\ mfOps' = mfOps + 1
    /\ mfLast' = [op |-> op, arg |-> arg, ret |-> result]
    /\ mfAdded' = IF op = "add_capability" THEN Append(mfAdded, arg)
                  ELSE mfAdded
    /\ UNCHANGED << old, registryVars, mergeVars, gatewayVars, storageVars >>

manifest_add_schema ==
    /\ Len(mf.schemas) < MaxSchemas
    /\ \E descriptor \in Descriptors :
         /\ mf' = add_schema(mf, descriptor)
         /\ Applied("add_schema", descriptor, Ok)

manifest_add_capability ==
    \E cap \in Capabilities :
        /\ mf' = add_capability(mf, cap)
        /\ Applied("add_capability", cap, Ok)

manifest_update_checksum ==
    /\ mf' = update_checksum(mf)
    /\ Applied("update_checksum", None, Ok)

\* manifest.checksum = "..."
manifest_set_checksum ==
    \E checksum \in ForgedChecksums :
        /\ mf' = [mf EXCEPT !.checksum = checksum]
        /\ Applied("set_checksum", checksum, Ok)

\* manifest.endpoints.health = "/health"
manifest_set_health ==
    /\ mf' = WithHealth(mf, "/health")
    /\ Applied("set_health", "/health", Ok)

\* manifest.version = "..."
manifest_set_version ==
    \E version \in ManifestVersions :
        /\ mf' = [mf EXCEPT !.version = version]
        /\ Applied("set_version", version, Ok)

manifest_validate ==
    /\ UNCHANGED mf
    /\ Applied("validate", None, validate(mf))

manifest_diff ==
    /\ UNCHANGED mf
    /\ Applied("diff_manifests", old, diff_manifests(old, mf))

manifest_diff_self ==
    /\ UNCHANGED mf
    /\ Applied("diff_manifests", mf, diff_manifests(mf, mf))

version_is_compatible ==
    \E version \in Versions :
        /\ UNCHANGED mf
        /\ Applied("is_compatible", version, is_compatible(version))

NextManifest ==
    \/ manifest_add_schema
    \/ manifest_add_capability
    \/ manifest_update_checksum
    \/ manifest_set_checksum
    \/ manifest_set_health
    \/ manifest_set_version
    \/ manifest_validate
    \/ manifest_diff
    \/ manifest_diff_self
    \/ version_is_compatible

SpecManifest == InitManifest /\ [][NextManifest]_vars

(***************************************************************************)
(* Claims about the manifest operations.                                   *)
(***************************************************************************)
\* The schema types, in the order of their as_str() strings.
TypeOrder ==
    << "asyncapi", "avro", "custom", "graphql", "grpc", "openapi", "orpc",
       "thrift" >>

\* The hash fields of the descriptors of one type, one after the other.
RECURSIVE HashesOfType(_, _)
HashesOfType(descriptors, t) ==
    IF descriptors = << >> THEN << >>
    ELSE (IF Head(descriptors).schema_type = t THEN Head(descriptors).hash
          ELSE << >>) \o HashesOfType(Tail(descriptors), t)

\* The hash fields type after type, from the i-th type of TypeOrder on.
RECURSIVE HashesInTypeOrder(_, _)
HashesInTypeOrder(descriptors, i) ==
    IF i > Len(TypeOrder) THEN << >>
    ELSE HashesOfType(descriptors, TypeOrder[i])
           \o HashesInTypeOrder(descriptors, i + 1)

\* The lists that hold the same descriptors in any order.
Reorderings(descriptors) ==
    LET n == Len(descriptors)
        perms == { p \in [1..n -> 1..n] :
                     \A i, j \in 1..n : p[i] = p[j] => i = j }
    IN  { [i \in 1..n |-> descriptors[p[i]]] : p \in perms }

\* The checksum is the empty string without descriptors, and the hash of
\* the hash fields concatenated in type order otherwise.
ChecksumOfSortedHashes ==
    /\ mf.schemas = << >> => calculate_manifest_checksum(mf) = << >>
    /\ mf.schemas # << >> =>
         calculate_manifest_checksum(mf)
           = Sha256Hex(HashesInTypeOrder(mf.schemas, 1))
    /\ mfLast.op = "update_checksum" =>
         mf.checksum = IF mf.schemas = << >> THEN << >>
                       ELSE Sha256Hex(HashesInTypeOrder(mf.schemas, 1))

SameChecksumInAnyOrder ==
    \A reordered \in Reorderings(mf.schemas) :
        calculate_manifest_checksum([mf EXCEPT !.schemas = reordered])
          = calculate_manifest_checksum(mf)

\* Descriptors of the same schema type have the same hash.
SameTypeSameHash(descriptors) ==
    \A i, j \in 1..Len(descriptors) :
        descriptors[i].schema_type = descriptors[j].schema_type
          => descriptors[i].hash = descriptors[j].hash

\* C16 as stated: the checksum is empty for no descriptors, else the hash
\* of the hash fields concatenated in schema_type order, and a manifest
\* holding the same descriptors in another order has the same checksum.
C16_OrderNeverMatters ==
    ChecksumOfSortedHashes /\ SameChecksumInAnyOrder

\* C16 (amended): the checksum is empty for no descriptors, else the hash
\* of the hash fields concatenated in schema_type order, and a manifest
\* holding the same descriptors in another order has the same checksum
\* when descriptors that share a schema_type have the same hash.
C16_ChecksumOfSortedHashes ==
    /\ ChecksumOfSortedHashes
    /\ SameTypeSameHash(mf.schemas) => SameChecksumInAnyOrder

\* C16 witness: update_checksum on a manifest that lists the openapi
\* descriptor before the grpc one stored the hash of the grpc hash followed
\* by the openapi hash.
C16_Witness ==
    /\ mfLast.op = "update_checksum"
    /\ Len(mf.schemas) = 2
    /\ mf.schemas[1].schema_type = "openapi"
    /\ mf.schemas[2].schema_type = "grpc"
    /\ mf.schemas[1].hash = << "p" >>
    /\ mf.schemas[2].hash = << "r" >>
    /\ mf.checksum = Sha256Hex(<< "r", "p" >>)

\* Every check of validate() before the checksum check passes.
OtherChecksPass(m) ==
    /\ is_compatible(m.version)
    /\ m.service_name # ""
    /\ m.instance_id # ""
    /\ m.health # ""
    /\ \A i \in 1..Len(m.schemas) :
         validate_schema_descriptor(m.schemas[i]) = Ok

ChecksumIsWrong(m) ==
    m.checksum # << >> /\ m.checksum # calculate_manifest_checksum(m)

\* C17: on a manifest that passes all other checks, validate() returns
\* ChecksumMismatch exactly when the checksum is non-empty and differs from
\* calculate_manifest_checksum; never right after update_checksum(), and
\* always after the checksum was replaced by a different non-empty string.
C17_ChecksumMismatchIff ==
    /\ OtherChecksPass(mf) =>
         (validate(mf) = "ChecksumMismatch" <=> ChecksumIsWrong(mf))
    /\ (mfLast.op = "validate" /\ OtherChecksPass(mf)) =>
         (mfLast.ret = "ChecksumMismatch" <=> ChecksumIsWrong(mf))
    /\ mfLast.op = "update_checksum" => validate(mf) # "ChecksumMismatch"
    /\ ( /\ mfLast.op = "set_checksum"
         /\ OtherChecksPass(mf)
         /\ mf.checksum # calculate_manifest_checksum(mf) ) =>
         validate(mf) = "ChecksumMismatch"

\* C17 witness: validate() returned ChecksumMismatch on a manifest with a
\* health endpoint, one valid descriptor and the checksum "invalid".
C17_Witness ==
    /\ mfLast.op = "validate"
    /\ mfLast.ret = "ChecksumMismatch"
    /\ Len(mf.schemas) = 1
    /\ mf.health = "/health"
    /\ mf.checksum = << "invalid", << >> >>

\* The diffed fields of a manifest.
TypesOf(m) == { m.schemas[i].schema_type : i \in 1..Len(m.schemas) }
CapabilitiesOf(m) == { m.capabilities[i] : i \in 1..Len(m.capabilities) }
HashOf(m, t) ==
    m.schemas[CHOOSE i \in 1..Len(m.schemas) : m.schemas[i].schema_type = t]
        .hash

\* One descriptor per schema type.
KeyedByType(m) ==
    \A i, j \in 1..Len(m.schemas) :
        m.schemas[i].schema_type = m.schemas[j].schema_type => i = j

DifferInDiffedFields(a, b) ==
    \/ TypesOf(a) # TypesOf(b)
    \/ \E t \in TypesOf(a) \cap TypesOf(b) : HashOf(a, t) # HashOf(b, t)
    \/ CapabilitiesOf(a) # CapabilitiesOf(b)
    \/ a.health # b.health

IsInteger(segment) == segment \in { "0", "1", "2" }
ValueOf(segment) ==
    CASE segment = "0" -> 0 [] segment = "1" -> 1 [] segment = "2" -> 2

\* C19: is_compatible(v) is true exactly when v is three dot-separated
\* non-negative integers M.m.p with M the protocol major version and m not
\* greater than the protocol minor version.
C19_CompatibleIffThreeIntegers ==
    mfLast.op = "is_compatible" =>
        LET v == mfLast.arg
            three_integers ==
                /\ Len(v) = 3
                /\ \A i \in 1..3 : IsInteger(v[i])
                /\ ValueOf(v[1]) = PROTOCOL_MAJOR
                /\ ValueOf(v[2]) <= PROTOCOL_MINOR
        IN  mfLast.ret = three_integers

\* The elements of a list, each at the place of its first occurrence.
RECURSIVE FirstOccurrences(_)
FirstOccurrences(list) ==
    IF list = << >> THEN << >>
    ELSE LET front == FirstOccurrences(SubSeq(list, 1, Len(list) - 1))
             x == list[Len(list)]
         IN  IF \E i \in 1..Len(front) : front[i] = x THEN front
             ELSE Append(front, x)

C20_Step ==
    (mfLast'.op = "add_capability" /\ mfOps' = mfOps + 1) =>
        ((\E i \in 1..Len(mf.capabilities) :
              mf.capabilities[i] = mfLast'.arg) => mf' = mf)

\* C20: after any sequence of add_capability calls on a new manifest the
\* capabilities hold no duplicates, hold each added capability once in the
\* order of first insertion, and adding a capability that is present
\* leaves the manifest unchanged.
C20_CapabilitiesOnceInOrder ==
    /\ [](/\ mf.capabilities = FirstOccurrences(mfAdded)
          /\ \A i, j \in 1..Len(mf.capabilities) :
               mf.capabilities[i] = mf.capabilities[j] => i = j)
    /\ [][C20_Step]_vars

\* C20 witness: add_capability("rest"), ("grpc"), ("rest") left the
\* capabilities rest, grpc; the last call changed nothing.
C20_Witness ==
    /\ mfAdded = << "rest", "grpc", "rest" >>
    /\ mfLast.op = "add_capability"
    /\ mf.capabilities = << "rest", "grpc" >>

\* A hash string of exactly 64 lowercase hexadecimal characters.
IsLowerHex64(hash) ==
    /\ HashLen(hash) = 64
    /\ \A i \in 1..Len(hash) : hash[i] \in LowerHexBlocks

\* C21: validate_schema_descriptor accepts a descriptor only when its hash
\* is exactly 64 lowercase hexadecimal characters, and so does validate()
\* of a manifest that holds it.
C21_HashIsLowerHex ==
    /\ \A i \in 1..Len(mf.schemas) :
         validate_schema_descriptor(mf.schemas[i]) = Ok
           => IsLowerHex64(mf.schemas[i].hash)
    /\ (mfLast.op = "validate" /\ mfLast.ret = Ok) =>
         \A i \in 1..Len(mf.schemas) : IsLowerHex64(mf.schemas[i].hash)

(***************************************************************************)
(* Claims about the locks of MemoryRegistry.                               *)
(***************************************************************************)
\* The caller tasks whose guard task t awaits: the holder of closed for the
\* reads and the write of the flag, the holder of manifests for the steps
\* on the manifest map, the readers of watchers for watchers.write().
WaitsFor(t) ==
    CASE pc[t] \in {"is_closed", "close_closed"} -> {closedLock} \ {0}
      [] pc[t] \in {"write_manifests", "read_manifests", "clear_manifests"} ->
             {manifestsLock} \ {0}
      [] pc[t] \in {"write_watchers", "close_watchers"} -> watchersLock \ {t}
      [] OTHER -> {}

\* The guards task t holds across a suspension point.
HeldBy(t) ==
    {l \in {"closed", "manifests", "watchers"} :
        \/ l = "closed" /\ closedLock = t
        \/ l = "manifests" /\ manifestsLock = t
        \/ l = "watchers" /\ t \in watchersLock}

\* Task t cannot go on before a receiver task has handled an event.
WaitsForHandler(t) ==
    /\ pc[t] = "send"
    /\ targets[t] # << >>
    /\ ~ChannelHasRoom(Head(targets[t]))

\* A handler is in on_change and has not returned.
InOnChange(w) == handler[w] = "hung"

\* A set of tasks each of which awaits a guard held inside the set.
WaitForEachOther(S) == S # {} /\ \A t \in S : WaitsFor(t) \cap S # {}

\* C28: the guards are held by caller tasks only, each at the one place of
\* its call where the guard spans an await, and none of them by or for a
\* receiver task: no holder waits for a handler, and a task that awaits no
\* caller's guard can take its step whatever the handlers do.  No set of
\* tasks wait for each other's guards.
C28_NoLockAcrossHandlerNoDeadlock ==
    /\ closedLock \in Tasks \cup {0}
    /\ manifestsLock \in Tasks \cup {0}
    /\ watchersLock \subseteq Tasks
    /\ \A t \in Tasks :
        /\ closedLock = t => pc[t] = "close_watchers"
        /\ manifestsLock = t => pc[t] = "clear_schemas"
        /\ t \in watchersLock => pc[t] = "send"
        /\ ~WaitsForHandler(t)
        /\ (pc[t] # "idle" /\ WaitsFor(t) = {}) => ENABLED TaskStep(t)
    /\ \A S \in SUBSET Tasks : ~WaitForEachOther(S)

\* C28 witness: a handler is in on_change, never to return, on the event
\* of a task that has not yet dropped its watchers guard, while another
\* task holds closed and awaits watchers.
C28_Witness ==
    \E w \in WatcherIds, t, u \in Tasks :
        /\ InOnChange(w)
        /\ HeldBy(t) = {"closed"}
        /\ WaitsFor(t) = {u}
        /\ HeldBy(u) = {"watchers"}
        /\ chan[w][delivered[w]] = event[u]

\* The tags on the operations of a map of path items.
OperationTags(paths) ==
    UNION { { paths[p][v].v.tags[i] : i \in 1..Len(paths[p][v].v.tags) } :
              << p, v >> \in { << q, w >> \in (DOMAIN paths) \X Verbs :
                                 paths[q][w].some } }

\* The tags on the operations of the services that were merged, as the
\* services wrote them.
InputOperationTags ==
    UNION { OperationTags(ParsedSchema(mSchemas[i]).v.paths) :
              i \in Contributing }

\* The names of the top-level tags of those services.
InputTagNames ==
    UNION { { ParsedSchema(mSchemas[i]).v.tags[k].name :
                k \in 1..Len(ParsedSchema(mSchemas[i]).v.tags) } :
              i \in Contributing }

\* C29: with include_service_tags = false a returned merge holds every
\* top-level tag and every tag on an operation under the name the service
\* gave it.
C29_NoTagPrefix ==
    (mRet = "Ok" /\ ~mConfig.include_service_tags) =>
        /\ { mResult.spec.tags[k].name : k \in 1..Len(mResult.spec.tags) }
             \subseteq InputTagNames
        /\ OperationTags(mResult.spec.paths) \subseteq InputOperationTags

\* The schema of the service has to be parsed and cannot be.
Unparsable(schema) ==
    /\ should_include_in_merge(schema)
    /\ ~schema.parsed.some
    /\ \/ ~schema.schema.openapi.some
       \/ ~schema.schema.info.some

C30_Step ==
    (mPhase = "service" /\ mIdx <= Len(mSchemas) /\ Unparsable(mSchemas[mIdx]))
      =>
        /\ mResult'.spec = mResult.spec
        /\ mResult'.conflicts = mResult.conflicts
        /\ Len(mResult'.warnings) = Len(mResult.warnings) + 1
        /\ mSeen' = mSeen
        /\ mRet' = mRet
        /\ mPhase' = "service"
        /\ mIdx' = mIdx + 1

\* C30: the step of the merge loop on a service whose schema cannot be
\* parsed adds one warning, leaves the merged document, the conflicts and
\* the seen_* maps as they were, does not fail, and goes on to the next
\* service; a returned merge holds one warning per such service and only
\* paths of the services that were parsed.
C30_UnparsableOnlyWarns ==
    /\ [][C30_Step]_vars
    /\ [](mRet = "Ok" =>
            /\ Len(mResult.warnings)
                 = Cardinality({ i \in 1..Len(mSchemas) :
                                   Unparsable(mSchemas[i]) })
            /\ NoPathConflictRecorded =>
                 DOMAIN mResult.spec.paths
                   = UNION { MountedPaths(mSchemas[i]) : i \in Contributing })

\* C30 witness: the first of two services could not be parsed; the merge
\* returned Ok with one warning and the paths of the second service.
C30_Witness ==
    /\ mRet = "Ok"
    /\ Len(mSchemas) = 2
    /\ Unparsable(mSchemas[1])
    /\ Contributing = { 2 }
    /\ Len(mResult.warnings) = 1
    /\ DOMAIN mResult.spec.paths = MountedPaths(mSchemas[2])
    /\ DOMAIN mResult.spec.paths # {}
    /\ mResult.conflicts = << >>

(***************************************************************************)
(* Part 4: the gateway Client (src/gateway/client.rs).  A JSON value is    *)
(* modelled by the two members the conversion reads: "paths", an object    *)
(* given as the sequence of its entries in iteration order, and            *)
(* "channels", the sequence of its keys.  The calls of one client are      *)
(* taken one after the other.                                              *)
(***************************************************************************)
MaxGatewayOps == 3     \* operations of the client in one behaviour
MaxManifests == 2      \* manifests in one convert_to_routes argument

JsonValue(paths, channels) == [paths |-> paths, channels |-> channels]

\* {"paths": {"/users": {"get": {}, "post": {}, "parameters": []}}}
JsonUsers ==
    JsonValue(Some(<< [path |-> "/users",
                       keys |-> << "get", "post", "parameters" >>] >>), NoneOpt)
\* {"paths": {"/orders": {"delete": {}}, "/meta": {"summary": ""}}}
JsonOrders ==
    JsonValue(Some(<< [path |-> "/orders", keys |-> << "delete" >>],
                      [path |-> "/meta", keys |-> << "summary" >>] >>), NoneOpt)
\* {"channels": {"/events": {}}}
JsonEvents == JsonValue(NoneOpt, Some(<< "/events" >>))
\* A value with neither member, e.g. a GraphQL SDL string.
JsonSdl == JsonValue(NoneOpt, NoneOpt)

GatewayDescriptor(schema_type, hash, location_type, registry_path, inline_schema) ==
    [ schema_type   |-> schema_type,
      hash          |-> hash,
      location      |-> [ location_type |-> location_type,
                          registry_path |-> registry_path ],
      inline_schema |-> inline_schema ]

InlineUsers == GatewayDescriptor("openapi", << "p" >>, "inline", NoneOpt, Some(JsonUsers))
HttpUsers == GatewayDescriptor("openapi", << "p" >>, "http", NoneOpt, NoneOpt)
RegistryOrders ==
    GatewayDescriptor("openapi", << "q" >>, "registry", Some("/schemas/p"), NoneOpt)
InlineMissing == GatewayDescriptor("openapi", << "r" >>, "inline", NoneOpt, NoneOpt)
RegistryMissing == GatewayDescriptor("asyncapi", << "r" >>, "registry", NoneOpt, NoneOpt)
InlineEvents == GatewayDescriptor("asyncapi", << "s" >>, "inline", NoneOpt, Some(JsonEvents))
HttpGraphQL == GatewayDescriptor("graphql", << "q" >>, "http", NoneOpt, NoneOpt)
InlineGrpc == GatewayDescriptor("grpc", << "t" >>, "inline", NoneOpt, Some(JsonSdl))

\* A manifest with its endpoints.health and endpoints.graphql set.
GatewayManifest(service_name, instance_id, descriptors, graphql) ==
    LET m == WithHealth(new_manifest(service_name, "v1", instance_id), "/health")
    IN  [f \in DOMAIN m \cup {"graphql"} |->
           CASE f = "graphql" -> graphql
             [] f = "schemas" -> descriptors
             [] OTHER -> m[f]]

GatewayManifests ==
    { GatewayManifest("a", "i1", << InlineUsers, HttpUsers >>, NoneOpt),
      GatewayManifest("a", "i1", << HttpUsers, InlineEvents >>, NoneOpt),
      GatewayManifest("b", "i2", << RegistryOrders, InlineMissing >>, NoneOpt),
      GatewayManifest("b", "i2", << HttpGraphQL, RegistryMissing >>, Some("/gql")),
      GatewayManifest("a", "i2", << InlineGrpc >>, NoneOpt) }

\* What the registry of the client holds under the one path in use.
GatewayRegistries == { << >>, [p \in {"/schemas/p"} |-> JsonOrders] }

HttpMethodKeys == {"get", "post", "put", "delete", "patch", "options", "head"}

\* str::to_uppercase on the method keys.
to_uppercase(k) ==
    CASE k = "get" -> "GET"
      [] k = "post" -> "POST"
      [] k = "put" -> "PUT"
      [] k = "delete" -> "DELETE"
      [] k = "patch" -> "PATCH"
      [] k = "options" -> "OPTIONS"
      [] k = "head" -> "HEAD"
      [] OTHER -> k

RECURSIVE MethodsOf(_)
MethodsOf(keys) ==
    IF keys = << >> THEN << >>
    ELSE (IF Head(keys) \in HttpMethodKeys THEN << to_uppercase(Head(keys)) >>
          ELSE << >>) \o MethodsOf(Tail(keys))

\* format!("http://{}:8080", manifest.service_name)
base_url(manifest) == << "http://", manifest.service_name, ":8080" >>

ServiceRoute(manifest, path, methods, metadata) ==
    [ path            |-> path,
      methods         |-> methods,
      target_url      |-> base_url(manifest) \o << path >>,
      health_url      |-> base_url(manifest) \o << manifest.health >>,
      service_name    |-> manifest.service_name,
      service_version |-> manifest.service_version,
      middleware      |-> << >>,
      metadata        |-> metadata ]

RECURSIVE OpenAPIRoutes(_, _)
OpenAPIRoutes(manifest, entries) ==
    IF entries = << >> THEN << >>
    ELSE LET methods == MethodsOf(Head(entries).keys)
         IN  (IF methods # << >>
              THEN << ServiceRoute(manifest, Head(entries).path, methods,
                                   [schema_type |-> "openapi"]) >>
              ELSE << >>) \o OpenAPIRoutes(manifest, Tail(entries))

convert_openapi_to_routes(manifest, schema) ==
    IF schema.paths.some THEN OpenAPIRoutes(manifest, schema.paths.v) ELSE << >>

convert_asyncapi_to_routes(manifest, schema) ==
    IF schema.channels.some
    THEN [i \in 1..Len(schema.channels.v) |->
            ServiceRoute(manifest, schema.channels.v[i], << "WEBSOCKET" >>,
                         [schema_type |-> "asyncapi", protocol |-> "websocket"])]
    ELSE << >>

convert_graphql_to_routes(manifest, schema) ==
    LET graphql_path == IF manifest.graphql.some THEN manifest.graphql.v
                        ELSE "/graphql"
    IN  << ServiceRoute(manifest, graphql_path, << "POST", "GET" >>,
                        [schema_type |-> "graphql"]) >>

\* The match on schema_desc.schema_type in convert_to_routes.
schema_routes(manifest, schema_desc, schema) ==
    CASE schema_desc.schema_type = "openapi" ->
             convert_openapi_to_routes(manifest, schema)
      [] schema_desc.schema_type = "asyncapi" ->
             convert_asyncapi_to_routes(manifest, schema)
      [] schema_desc.schema_type = "graphql" ->
             convert_graphql_to_routes(manifest, schema)
      [] OTHER -> << >>

FetchOk(schema, cache) == [ok |-> TRUE, v |-> schema, cache |-> cache]
FetchErr(e, cache) == [ok |-> FALSE, e |-> e, cache |-> cache]

\* Client::fetch_schema: the result and the schema cache it leaves.
client_fetch_schema(descriptor, cache, registry) ==
    IF descriptor.hash \in DOMAIN cache
    THEN FetchOk(cache[descriptor.hash], cache)
    ELSE CASE descriptor.location.location_type = "inline" ->
                IF descriptor.inline_schema.some
                THEN FetchOk(descriptor.inline_schema.v,
                             MapInsert(cache, descriptor.hash,
                                       descriptor.inline_schema.v))
                ELSE FetchErr("InvalidLocation", cache)
           [] descriptor.location.location_type = "registry" ->
                IF ~descriptor.location.registry_path.some
                THEN FetchErr("InvalidLocation", cache)
                ELSE LET fetched ==
                             FetchSchema(registry, descriptor.location.registry_path.v)
                     IN  IF fetched.status = Ok
                         THEN FetchOk(fetched.value,
                                      MapInsert(cache, descriptor.hash, fetched.value))
                         ELSE FetchErr(fetched.status, cache)
           [] descriptor.location.location_type = "http" ->
                FetchErr("SchemaFetchFailed", cache)

\* The (manifest, descriptor) pairs in the order of the two loops.
RECURSIVE DescriptorPairs(_)
DescriptorPairs(ms) ==
    IF ms = << >> THEN << >>
    ELSE [j \in 1..Len(Head(ms).schemas) |->
            [manifest |-> Head(ms), schema_desc |-> Head(ms).schemas[j]]]
         \o DescriptorPairs(Tail(ms))

\* Faulty variant: Err(_) => return Vec::new() is modelled by dropping the
\* routes collected so far.
fetch_failed_drops(acc, pair) ==
    [acc EXCEPT !.routes = << >>,
                !.fetches = Append(@, [schema_desc |-> pair.schema_desc,
                                       ok |-> FALSE])]

\* Err(_) => continue.  The history field fetches notes the outcome.
fetch_failed(acc, pair) ==
    [acc EXCEPT !.fetches = Append(@, [schema_desc |-> pair.schema_desc,
                                       ok |-> FALSE])]

\* One turn of the inner loop of convert_to_routes.
convert_one(acc, pair, registry) ==
    LET fetched == client_fetch_schema(pair.schema_desc, acc.cache, registry)
    IN  IF fetched.ok
        THEN [ routes  |-> acc.routes
                           \o schema_routes(pair.manifest, pair.schema_desc,
                                            fetched.v),
               cache   |-> fetched.cache,
               fetches |-> Append(acc.fetches,
                                  [schema_desc |-> pair.schema_desc,
                                   ok |-> TRUE]) ]
        ELSE fetch_failed([acc EXCEPT !.cache = fetched.cache], pair)

RECURSIVE ConvertPairs(_, _, _)
ConvertPairs(pairs, acc, registry) ==
    IF pairs = << >> THEN acc
    ELSE ConvertPairs(Tail(pairs), convert_one(acc, Head(pairs), registry),
                      registry)

\* Client::convert_to_routes: the routes, the schema cache it leaves and the
\* outcome of each fetch.
convert_to_routes(ms, cache, registry) ==
    ConvertPairs(DescriptorPairs(ms),
                 [routes |-> << >>, cache |-> cache, fetches |-> << >>],
                 registry)

\* The orders in which HashMap::values may yield the entries of map.
ValueOrders(map) ==
    { [i \in 1..Len(s) |-> map[s[i]]] :
        s \in { q \in [1..Cardinality(DOMAIN map) -> DOMAIN map] :
                  \A i, j \in DOMAIN q : i # j => q[i] # q[j] } }

\* watch_services has not been called.
NotWatching == [phase |-> "idle"]

\* Client::new.
InitGateway ==
    /\ InitRegistry
    /\ MergerOff
    /\ ManifestOff
    /\ StorageOff
    /\ manifest_cache = << >>
    /\ schema_cache = << >>
    /\ gwRegistry \in GatewayRegistries
    /\ gwOps = 0
    /\ gwLast = NoOp
    /\ gwWatch = NotWatching
    /\ gwTasks = << >>

\* One more operation of the client.
GatewayOp ==
    /\ gwOps < MaxGatewayOps
    /\ gwOps' = gwOps + 1
    /\ UNCHANGED << gwWatch, gwTasks >>
    /\ UNCHANGED << registryVars, mergeVars, manifestVars, storageVars >>

Converted(op, ms) ==
    LET r == convert_to_routes(ms, schema_cache, gwRegistry)
    IN  /\ schema_cache' = r.cache
        /\ gwLast' = [ op |-> op, arg |-> ms, cache |-> schema_cache,
                       routes |-> r.routes, fetches |-> r.fetches ]

gateway_convert_to_routes ==
    /\ GatewayOp
    /\ \E ms \in ListsUpTo(GatewayManifests, MaxManifests) :
           Converted("convert_to_routes", ms)
    /\ UNCHANGED << manifest_cache, gwRegistry >>

\* The task spawned by the handler of watch_services for one event.
gateway_on_event ==
    /\ GatewayOp
    /\ \E manifest \in GatewayManifests,
          event_type \in {"added", "updated", "removed"} :
           /\ manifest_cache' =
                 IF event_type = "removed"
                 THEN MapRemove(manifest_cache, manifest.instance_id)
                 ELSE MapInsert(manifest_cache, manifest.instance_id, manifest)
           /\ \E ms \in ValueOrders(manifest_cache') : Converted("on_event", ms)
    /\ UNCHANGED gwRegistry

gateway_clear_cache ==
    /\ GatewayOp
    /\ schema_cache' = << >>
    /\ gwLast' = [op |-> "clear_cache"]
    /\ UNCHANGED << manifest_cache, gwRegistry >>

gateway_get_manifest ==
    /\ GatewayOp
    /\ \E instance_id \in InstanceIds :
           gwLast' = [ op |-> "get_manifest", arg |-> instance_id,
                       ret |-> IF instance_id \in DOMAIN manifest_cache
                               THEN Some(manifest_cache[instance_id])
                               ELSE NoneOpt ]
    /\ UNCHANGED << manifest_cache, schema_cache, gwRegistry >>

\* Another user of the registry publishes or deletes the schema.
gateway_registry_changes ==
    /\ GatewayOp
    /\ \E r \in GatewayRegistries \ {gwRegistry} : gwRegistry' = r
    /\ gwLast' = [op |-> "registry"]
    /\ UNCHANGED << manifest_cache, schema_cache >>

NextGateway ==
    \/ gateway_convert_to_routes
    \/ gateway_on_event
    \/ gateway_clear_cache
    \/ gateway_get_manifest
    \/ gateway_registry_changes

SpecGateway == InitGateway /\ [][NextGateway]_vars

(***************************************************************************)
(* Claims about the gateway Client.                                        *)
(***************************************************************************)
\* C22: after clear_cache() has returned, the manifest cache and the schema
\* cache of the client are both empty.
C22_ClearCacheEmptiesBoth ==
    gwLast.op = "clear_cache" =>
        /\ manifest_cache = << >>
        /\ schema_cache = << >>

\* The last operation converted manifests to routes.
LastConverted == gwLast.op \in {"convert_to_routes", "on_event"}

RECURSIVE FetchOffset(_, _)
\* The number of descriptors before manifest k of ms.
FetchOffset(ms, k) ==
    IF k = 1 THEN 0 ELSE FetchOffset(ms, k - 1) + Len(ms[k - 1].schemas)

RECURSIVE Pick(_, _, _)
\* The elements of seq at the indices in keep, from index i on.
Pick(seq, keep, i) ==
    IF i > Len(seq) THEN << >>
    ELSE (IF i \in keep THEN << seq[i] >> ELSE << >>) \o Pick(seq, keep, i + 1)

\* The manifests ms without the descriptors whose fetch returned an error.
WithoutFailed(ms, fetches) ==
    [k \in 1..Len(ms) |->
       LET descs == ms[k].schemas
           kept == {j \in 1..Len(descs) : fetches[FetchOffset(ms, k) + j].ok}
       IN  [f \in DOMAIN ms[k] |->
              IF f = "schemas" THEN Pick(descs, kept, 1) ELSE ms[k][f]]]

\* C23: convert_to_routes returns its routes whatever the fetches return; the
\* routes and the schema cache it leaves are those of the same call on the
\* input without the descriptors whose fetch failed, in which no fetch
\* fails.
C23_FetchErrorsSwallowed ==
    LastConverted =>
        LET clean == convert_to_routes(WithoutFailed(gwLast.arg, gwLast.fetches),
                                       gwLast.cache, gwRegistry)
        IN  /\ Len(gwLast.fetches) = Len(DescriptorPairs(gwLast.arg))
            /\ gwLast.routes = clean.routes
            /\ schema_cache = clean.cache
            /\ \A i \in DOMAIN clean.fetches : clean.fetches[i].ok

\* C23 witness: a fetch failed between two fetches that succeeded, and the
\* call returned routes of both.
C23_Witness ==
    /\ LastConverted
    /\ \E i, j, k \in DOMAIN gwLast.fetches :
        /\ i < j /\ j < k
        /\ gwLast.fetches[i].ok /\ ~gwLast.fetches[j].ok /\ gwLast.fetches[k].ok
        /\ gwLast.fetches[j].schema_desc.hash \notin DOMAIN schema_cache
    /\ \E x, y \in DOMAIN gwLast.routes :
           gwLast.routes[x].service_name # gwLast.routes[y].service_name

\* C24: the fetch of a descriptor whose location type is http returns an
\* error, whatever the schema cache holds.
C24_HttpFetchAlwaysFails ==
    LastConverted =>
        \A i \in DOMAIN gwLast.fetches :
            gwLast.fetches[i].schema_desc.location.location_type = "http"
                => ~gwLast.fetches[i].ok

(***************************************************************************)
(* Part 5: StorageHelper and ManifestStorage (src/storage.rs) over a       *)
(* key-value backend.  A byte string is << "json", value >> for the        *)
(* serde_json encoding of value, << "gzip", data >> for the gzip stream of *)
(* data, and << "junk" >> for bytes that are neither.  Keys are sequences  *)
(* of pieces.  Lengths are counted in the unit of the two limits.          *)
(***************************************************************************)
MaxStorageOps == 4     \* operations on the storage in one behaviour

Namespace == "farp"

\* data.len() of serde_json::to_vec(value): it grows with the content.
JsonLen(value) ==
    IF "capabilities" \in DOMAIN value THEN 2 + Len(value.capabilities)
    ELSE IF value.paths.some THEN 1 + Len(value.paths.v)
    ELSE 1

\* serde_json::to_vec.
to_vec(value) == << "json", value >>

\* compress_data: GzEncoder over data.
compress_data(data) == << "gzip", data >>

\* decompress_data: GzDecoder::read_to_end fails with an io::Error, which
\* `?` turns into Error::Io, on bytes that are no gzip stream.
decompress_data(data) ==
    IF data[1] = "gzip" THEN [status |-> Ok, value |-> data[2]]
    ELSE Result("Io")

\* serde_json::from_slice::<T>(..).map_err(|e| Error::invalid_schema(..)),
\* for T = SchemaManifest ("manifest") or serde_json::Value ("value").
from_slice(data, target) ==
    IF /\ data[1] = "json"
       /\ target = "manifest" => "instance_id" \in DOMAIN data[2]
    THEN [status |-> Ok, value |-> data[2]]
    ELSE Result("InvalidSchema")

SchemaToLarge == Result("SchemaToLarge")

\* StorageBackend::get: Error::SchemaNotFound if the key does not exist.
backend_get(bk, key) ==
    IF key \in DOMAIN bk THEN [status |-> Ok, value |-> bk[key]]
    ELSE SchemaNotFound

\* Faulty variant: the size limit is not checked.
put_json_unchecked(helper, bk, key, value) ==
    LET data == to_vec(value)
    IN  IF helper.compression_threshold > 0
           /\ JsonLen(value) > helper.compression_threshold
        THEN [ret |-> Result(Ok),
              backend |-> MapInsert(bk, key \o << ".gz" >>, compress_data(data))]
        ELSE [ret |-> Result(Ok), backend |-> MapInsert(bk, key, data)]

\* StorageHelper::put_json: what it returns and the backend it leaves.
put_json(helper, bk, key, value) ==
    LET data == to_vec(value)
    IN  IF helper.max_size > 0 /\ JsonLen(value) > helper.max_size
        THEN [ret |-> SchemaToLarge, backend |-> bk]
        ELSE IF helper.compression_threshold > 0
                /\ JsonLen(value) > helper.compression_threshold
        THEN [ret |-> Result(Ok),
              backend |-> MapInsert(bk, key \o << ".gz" >>, compress_data(data))]
        ELSE [ret |-> Result(Ok), backend |-> MapInsert(bk, key, data)]

\* StorageHelper::get_json::<_, T>.
get_json(bk, key, target) ==
    LET compressed == backend_get(bk, key \o << ".gz" >>)
    IN  IF compressed.status = Ok
        THEN LET data == decompress_data(compressed.value)
             IN  IF data.status = Ok THEN from_slice(data.value, target)
                 ELSE data
        ELSE LET raw == backend_get(bk, key)
             IN  IF raw.status = Ok THEN from_slice(raw.value, target)
                 ELSE raw

manifest_key(service_name, instance_id) ==
    << Namespace, "/services/", service_name, "/instances/", instance_id,
       "/manifest" >>

schema_key(path) == << Namespace, path >>

\* StorageBackend::list: the keys with the given prefix.
backend_list(bk, prefix) ==
    { key \in DOMAIN bk :
        /\ Len(key) >= Len(prefix)
        /\ SubSeq(key, 1, Len(prefix)) = prefix }

\* The map_err of ManifestStorage::get.
not_found_as_manifest(r) == IF r = SchemaNotFound THEN ManifestNotFound ELSE r

RECURSIVE DecodeEach(_, _)
\* The loop of ManifestStorage::list over the keys: values that fail to
\* decode are skipped.
DecodeEach(bk, keys) ==
    IF keys = << >> THEN << >>
    ELSE LET r == get_json(bk, Head(keys), "manifest")
         IN  (IF r.status = Ok THEN << r.value >> ELSE << >>)
             \o DecodeEach(bk, Tail(keys))

\* The orders in which the backend may list the keys in S.
KeyOrders(S) ==
    { q \in [1..Cardinality(S) -> S] :
        \A i, j \in DOMAIN q : i # j => q[i] # q[j] }

StoredManifest(service_name, instance_id, capabilities) ==
    [ WithHealth(new_manifest(service_name, "v1", instance_id), "/health")
        EXCEPT !.capabilities = capabilities ]

StorageManifests ==
    { StoredManifest("a", "i1", << >>),
      StoredManifest("a", "i1", << "rest" >>),
      StoredManifest("a", "i1", << "rest", "grpc" >>),
      StoredManifest("a", "i2", << "rest" >>),
      StoredManifest("b", "i1", << >>) }

\* StorageHelper::new(compression_threshold, max_size); 0 turns a limit off.
StorageHelpers == [compression_threshold : {0, 2}, max_size : {0, 3}]

\* ManifestStorage::new over an empty backend.
InitStorage ==
    /\ InitRegistry
    /\ MergerOff
    /\ ManifestOff
    /\ GatewayOff
    /\ backend = << >>
    /\ stHelper \in StorageHelpers
    /\ stOps = 0
    /\ stLast = NoOp
    /\ stStored = << >>
    /\ stForeign = FALSE

\* One more operation on the storage: op(arg) returned result.
StorageOp(op, arg, result) ==
    /\ stOps < MaxStorageOps
    /\ stOps' = stOps + 1
    /\ stLast' = [op |-> op, arg |-> arg, ret |-> result, before |-> backend]
    /\ UNCHANGED << stHelper, registryVars, mergeVars, manifestVars,
                    gatewayVars >>

storage_put ==
    \E manifest \in StorageManifests :
        LET key == manifest_key(manifest.service_name, manifest.instance_id)
            r == put_json(stHelper, backend, key, manifest)
        IN  /\ StorageOp("put", manifest, r.ret)
            /\ backend' = r.backend
            /\ stStored' =
                  IF r.ret.status = Ok
                  THEN MapInsert(stStored,
                                 << manifest.service_name, manifest.instance_id >>,
                                 manifest)
                  ELSE stStored
            /\ UNCHANGED stForeign

storage_get ==
    \E service_name \in ServiceNames, instance_id \in InstanceIds :
        /\ StorageOp("get", << service_name, instance_id >>,
                     not_found_as_manifest(
                         get_json(backend, manifest_key(service_name, instance_id),
                                  "manifest")))
        /\ UNCHANGED << backend, stStored, stForeign >>

storage_delete ==
    \E service_name \in ServiceNames, instance_id \in InstanceIds :
        /\ StorageOp("delete", << service_name, instance_id >>, Result(Ok))
        /\ backend' = MapRemove(backend, manifest_key(service_name, instance_id))
        /\ stStored' = MapRemove(stStored, << service_name, instance_id >>)
        /\ UNCHANGED stForeign

storage_list ==
    \E service_name \in ServiceNames :
        LET prefix == << Namespace, "/services/", service_name, "/instances/" >>
        IN  \E keys \in KeyOrders(backend_list(backend, prefix)) :
                /\ StorageOp("list", service_name,
                             [status |-> Ok, value |-> DecodeEach(backend, keys)])
                /\ UNCHANGED << backend, stStored, stForeign >>

storage_put_schema ==
    \E path \in SchemaPaths, value \in {JsonUsers, JsonOrders} :
        LET r == put_json(stHelper, backend, schema_key(path), value)
        IN  /\ StorageOp("put_schema", << path, value >>, r.ret)
            /\ backend' = r.backend
            /\ UNCHANGED << stStored, stForeign >>

storage_get_schema ==
    \E path \in SchemaPaths :
        /\ StorageOp("get_schema", path,
                     get_json(backend, schema_key(path), "value"))
        /\ UNCHANGED << backend, stStored, stForeign >>

storage_delete_schema ==
    \E path \in SchemaPaths :
        /\ StorageOp("delete_schema", path, Result(Ok))
        /\ backend' = MapRemove(backend, schema_key(path))
        /\ UNCHANGED << stStored, stForeign >>

\* Another user of the backend writes a value of its own under a key.
backend_put ==
    \E key \in { manifest_key("a", "i1"), manifest_key("a", "i1") \o << ".gz" >>,
                 schema_key("/schemas/p") \o << ".gz" >> },
       value \in { << "junk" >>, to_vec(JsonUsers) } :
        /\ StorageOp("backend_put", << key, value >>, Result(Ok))
        /\ backend' = MapInsert(backend, key, value)
        /\ stForeign' = TRUE
        /\ UNCHANGED stStored

NextStorage ==
    \/ storage_put
    \/ storage_get
    \/ storage_delete
    \/ storage_list
    \/ storage_put_schema
    \/ storage_get_schema
    \/ storage_delete_schema
    \/ backend_put

SpecStorage == InitStorage /\ [][NextStorage]_vars

(***************************************************************************)
(* Claims about the storage layer.                                         *)
(***************************************************************************)
\* The last operation went through put_json, with this value.
LastPutJson == stLast.op \in {"put", "put_schema"}
LastPutValue == IF stLast.op = "put" THEN stLast.arg ELSE stLast.arg[2]

\* C25: put_json with max_size > 0 and a serialized value longer than
\* max_size returns the schema-too-large error and puts nothing: the backend
\* holds what it held before the call.
C25_TooLargeIsNotStored ==
    (LastPutJson /\ stHelper.max_size > 0
                 /\ JsonLen(LastPutValue) > stHelper.max_size) =>
        /\ stLast.ret = SchemaToLarge
        /\ backend = stLast.before

\* C25 witness: a manifest longer than max_size, and longer than the
\* compression threshold, was refused over a backend that holds an earlier
\* manifest under the same key.
C25_Witness ==
    /\ stLast.op = "put"
    /\ stLast.ret = SchemaToLarge
    /\ stHelper.compression_threshold > 0
    /\ JsonLen(stLast.arg) > stHelper.compression_threshold
    /\ \E key \in DOMAIN backend :
           SubSeq(key, 1, 6)
               = manifest_key(stLast.arg.service_name, stLast.arg.instance_id)

\* The manifests put for service_name and not deleted since.
StoredFor(service_name) ==
    { k \in DOMAIN stStored : k[1] = service_name }

\* C26: list(service_name) returns exactly the manifests put for that
\* service_name and not deleted since, each once, whether they were stored
\* raw or gzip-compressed (no other writer has touched the backend).
C26_ListReturnsStored ==
    (stLast.op = "list" /\ ~stForeign) =>
        /\ stLast.ret.status = Ok
        /\ Len(stLast.ret.value) = Cardinality(StoredFor(stLast.arg))
        /\ \A k \in StoredFor(stLast.arg) :
               \E i \in DOMAIN stLast.ret.value : stLast.ret.value[i] = stStored[k]

\* The key the last get or get_schema read, and the type it decoded to.
LastGetJson == stLast.op \in {"get", "get_schema"}
LastGetKey ==
    IF stLast.op = "get" THEN manifest_key(stLast.arg[1], stLast.arg[2])
    ELSE schema_key(stLast.arg)
LastGetTarget == IF stLast.op = "get" THEN "manifest" ELSE "value"

\* The bytes get_json decodes: the gunzipped value under key + ".gz" if
\* there is one, else the value under key.
GunzipFails ==
    /\ LastGetKey \o << ".gz" >> \in DOMAIN backend
    /\ backend[LastGetKey \o << ".gz" >>][1] # "gzip"
NeitherKeyExists ==
    /\ LastGetKey \o << ".gz" >> \notin DOMAIN backend
    /\ LastGetKey \notin DOMAIN backend
ParseFails ==
    /\ ~GunzipFails
    /\ ~NeitherKeyExists
    /\ LET data == IF LastGetKey \o << ".gz" >> \in DOMAIN backend
                   THEN backend[LastGetKey \o << ".gz" >>][2]
                   ELSE backend[LastGetKey]
       IN  \/ data[1] # "json"
           \/ LastGetTarget = "manifest" /\ "instance_id" \notin DOMAIN data[2]

\* What get_json does when the bytes do not decode, apart from the gunzip
\* failure.
ParseFailsOrNotFound ==
    LastGetJson =>
        /\ ParseFails => stLast.ret = Result("InvalidSchema")
        /\ NeitherKeyExists =>
               stLast.ret = IF stLast.op = "get" THEN ManifestNotFound
                            ELSE SchemaNotFound

\* C27: get_json returns InvalidSchema when the value under key + ".gz"
\* cannot be gunzipped and when the bytes are not JSON of the target type;
\* when neither key exists it returns the backend's not-found error, which
\* ManifestStorage::get turns into ManifestNotFound.
C27_GetJsonFailureModes ==
    /\ ParseFailsOrNotFound
    /\ (LastGetJson /\ GunzipFails) => stLast.ret = Result("InvalidSchema")

\* The key and the decoding target of a storage operation on one value.
OpKey(last) ==
    CASE last.op = "put" -> manifest_key(last.arg.service_name, last.arg.instance_id)
      [] last.op \in {"get", "delete"} -> manifest_key(last.arg[1], last.arg[2])
      [] last.op = "put_schema" -> schema_key(last.arg[1])
      [] last.op \in {"get_schema", "delete_schema"} -> schema_key(last.arg)
      [] OTHER -> << >>

\* A get or get_schema follows a put or put_schema: the step from the state
\* after the one to the state after the other.
GetFollowsPut ==
    /\ ~stForeign
    /\ \/ stLast.op = "put" /\ stLast'.op = "get"
       \/ stLast.op = "put_schema" /\ stLast'.op = "get_schema"
    /\ stLast.ret.status = Ok
    /\ OpKey(stLast') = OpKey(stLast)

\* C34: a get_json(key) that follows a put_json(key, v) that returned Ok
\* returns v, whatever was stored under the key before.
C34_GetReturnsLastPut ==
    [][GetFollowsPut =>
          stLast'.ret = [status |-> Ok, value |-> LastPutValue]]_vars

\* A get or get_schema follows a delete or delete_schema of the same key.
GetFollowsDelete ==
    /\ ~stForeign
    /\ \/ stLast.op = "delete" /\ stLast'.op = "get"
       \/ stLast.op = "delete_schema" /\ stLast'.op = "get_schema"
    /\ stLast.ret.status = Ok
    /\ OpKey(stLast') = OpKey(stLast)

\* C35: after delete(service, id) has returned Ok, get(service, id) returns
\* ManifestNotFound, and after delete_schema(path), get_schema(path) returns
\* SchemaNotFound, however the value had been stored.
C35_GetAfterDeleteNotFound ==
    [][GetFollowsDelete =>
          stLast'.ret = IF stLast'.op = "get" THEN ManifestNotFound
                        ELSE SchemaNotFound]_vars

(***************************************************************************)
(* Claims about the two stores of MemoryRegistry.                          *)
(***************************************************************************)
ReadOps == {"get_manifest", "list_manifests", "fetch_schema", "health"}

\* What a step of task t, in a call of the given kind, leaves alone.
C40_Step ==
    \A t \in Tasks :
        Steps(t) =>
            /\ call[t].op \in {"publish_schema", "delete_schema"} =>
                   /\ manifests' = manifests
                   /\ chan' = chan
                   /\ event' = event
            /\ call[t].op \in MutatingOps => schemas' = schemas
            /\ call[t].op \in ReadOps =>
                   /\ << manifests, schemas, watchers, closed >>'
                          = << manifests, schemas, watchers, closed >>
                   /\ chan' = chan
            /\ (call[t].op = "publish_schema" /\ pc[t] = "write_schemas") =>
                   /\ ret'[t] = Result(Ok)
                   /\ FetchSchema(schemas', call[t].path)
                          = [status |-> Ok, value |-> call[t].schema]
            /\ (call[t].op = "delete_schema" /\ pc[t] = "write_schemas") =>
                   /\ ret'[t] = Result(Ok)
                   /\ FetchSchema(schemas', call[t].path) = SchemaNotFound

\* C40: publish_schema and delete_schema change neither the manifest map nor
\* any channel, register/update/delete_manifest do not change the schema
\* map, and get_manifest, list_manifests, fetch_schema and health change
\* nothing; right after publish_schema(p, v) a fetch of p yields v, and
\* delete_schema(p) returns Ok, also when p is absent, after which a fetch of
\* p yields SchemaNotFound.
C40_StoresIndependent == [][C40_Step]_vars

\* C40 witness: with a manifest registered, a delete_schema has returned Ok
\* and a fetch_schema of its path SchemaNotFound, the schema map being
\* empty.
C40_Witness ==
    \E t, u \in Tasks :
        /\ ReturnedOk(t, "delete_schema")
        /\ pc[u] = "idle" /\ call[u].op = "fetch_schema"
        /\ ret[u] = SchemaNotFound
        /\ call[u].path = call[t].path
        /\ DOMAIN manifests # {}
        /\ schemas = << >>

RECURSIVE ApplyEvents(_, _)
\* A watcher's view after the events, in order: Added and Updated insert the
\* manifest by instance_id, Removed evicts it.
ApplyEvents(view, events) ==
    IF events = << >> THEN view
    ELSE LET e == Head(events)
             id == e.manifest.instance_id
         IN  ApplyEvents(IF e.event_type = "Removed" THEN MapRemove(view, id)
                         ELSE MapInsert(view, id, e.manifest),
                         Tail(events))

\* Watcher w subscribed before any mutation, the history is a sequential one
\* of register, update and delete calls, and every event has been delivered.
AllDelivered(w) ==
    /\ w <= nWatchers
    /\ subAt[w] = 0
    /\ serial
    /\ \A t \in Tasks : pc[t] = "idle"
    /\ handler[w] = "running"
    /\ delivered[w] = Len(chan[w])

\* C31: once all events are delivered, the view a watcher of service S builds
\* from them equals list_manifests(S).
C31_ViewEqualsList ==
    \A w \in WatcherIds :
        AllDelivered(w) =>
            LET view == ApplyEvents(<< >>, SubSeq(chan[w], 1, delivered[w]))
            IN  { view[i] : i \in DOMAIN view }
                  = ListManifests(manifests, subKey[w])

\* One iteration of the loop over the paths, for a service under the Prefix
\* strategy: every entry of the merged paths is still there, as it was.
C36_Step ==
    (mPhase = "paths" /\ Strategy(mSchemas[mIdx]) = "prefix") =>
        \A k \in DOMAIN mResult.spec.paths :
            /\ k \in DOMAIN mResult'.spec.paths
            /\ mResult'.spec.paths[k] = mResult.spec.paths[k]

\* C36: under the Prefix strategy no entry of the merged paths is ever
\* overwritten.
C36_PrefixNeverOverwrites == [][C36_Step]_vars

\* The operations of one service as apply_operation_prefixes leaves them when
\* it is applied once to each of the service's own path items.
PrefixedOnce(schema) ==
    LET manifest == schema.manifest
        comp_config == get_composition_config(manifest)
        items == ParsedSchema(schema).v.paths
        once(item) ==
            apply_operation_prefixes(
                item, get_operation_id_prefix(manifest, comp_config),
                get_tag_prefix(manifest, comp_config),
                manifest.service_name, << >>, << >>).item
    IN  { once(items[pv[1]])[pv[2]].v :
            pv \in { q \in (DOMAIN items) \X Verbs : items[q[1]][q[2]].some } }

\* C38: every operation of the merged paths carries the operation-ID prefix
\* and the tag prefix of the service it came from exactly once, under every
\* conflict strategy.
C38_PrefixedExactlyOnce ==
    (mPhase # "call" /\ mRet # "Err") =>
        \A key \in DOMAIN mResult.spec.paths, verb \in Verbs :
            mResult.spec.paths[key][verb].some =>
                \E i \in 1..Len(mSchemas) :
                    /\ should_include_in_merge(mSchemas[i])
                    /\ ParsedSchema(mSchemas[i]).ok
                    /\ mResult.spec.paths[key][verb].v
                         \in PrefixedOnce(mSchemas[i])

RECURSIVE PathsInOrder(_, _, _)
\* The loop over the paths of one service run to its end, each iteration as
\* in merge_path, with the paths taken in one fixed order.  acc holds the
\* merged paths, seen_paths, seen_operation_ids, the conflicts and whether
\* the loop returned an error.
PathsInOrder(acc, schema, todo) ==
    IF todo = {} \/ acc.err THEN acc
    ELSE
      LET path == CHOOSE q \in todo : TRUE
          manifest == schema.manifest
          comp_config == get_composition_config(manifest)
          c == path_conflict(acc.result, acc.paths, path,
                             RoutedPaths(schema)[path], manifest.service_name,
                             Strategy(schema))
          p == apply_operation_prefixes(
                   c.path_item,
                   get_operation_id_prefix(manifest, comp_config),
                   get_tag_prefix(manifest, comp_config),
                   manifest.service_name, acc.operation_ids, c.conflicts)
          next ==
              CASE c.outcome = "err" -> [acc EXCEPT !.err = TRUE]
                [] c.outcome = "skip" ->
                     [acc EXCEPT !.result.conflicts = c.conflicts]
                [] c.outcome = "insert" ->
                     [acc EXCEPT
                        !.result.spec.paths = MapInsert(@, c.path, p.item),
                        !.result.conflicts = p.conflicts,
                        !.paths = MapInsert(@, c.path, manifest.service_name),
                        !.operation_ids = p.seen]
      IN  PathsInOrder(next, schema, todo \ {path})

RECURSIVE ServicesInOrder(_, _)
\* The loop over the services, from service i on, for the paths only.
ServicesInOrder(acc, i) ==
    IF i > Len(mSchemas) \/ acc.err THEN acc
    ELSE IF should_include_in_merge(mSchemas[i]) /\ ParsedSchema(mSchemas[i]).ok
    THEN ServicesInOrder(
             PathsInOrder(acc, mSchemas[i],
                          DOMAIN RoutedPaths(mSchemas[i])), i + 1)
    ELSE ServicesInOrder(acc, i + 1)

\* The paths and the path and operation-ID conflicts of one run of merge on
\* mConfig and mSchemas.
OneRun ==
    ServicesInOrder([result |-> EmptyResult, paths |-> << >>,
                     operation_ids |-> << >>, err |-> FALSE], 1)

PathConflicts(conflicts) ==
    { conflicts[i] : i \in { j \in 1..Len(conflicts) :
          conflicts[j].conflict_type \in {"Path", "OperationID"} } }

\* C39: a run of merge that returns Ok yields the merged paths and the set
\* of path and operation-ID conflicts of every other run on the same
\* configuration and the same list of services, whatever the order in which
\* the paths of a service are iterated.
C39_MergeIsAFunction ==
    mRet = "Ok" =>
        /\ ~OneRun.err
        /\ mResult.spec.paths = OneRun.result.spec.paths
        /\ PathConflicts(mResult.conflicts)
             = PathConflicts(OneRun.result.conflicts)

(***************************************************************************)
(* Part 6: AsyncAPIMerger, GRPCMerger and ORPCMerger (src/merger/          *)
(* asyncapi.rs, grpc.rs, orpc.rs).  The three merge functions share one    *)
(* shape; they differ in the map they merge first (channels, services,     *)
(* procedures), in the separator of the key and in the Merge arm.  The     *)
(* variables of a merge call hold the state of the call.  The services are *)
(* passed in parsed and have no messages, schemas, enums, servers nor      *)
(* security schemes, so the later loops of a service make no iteration.    *)
(***************************************************************************)
MaxProtocolServices == 2   \* services passed to one merge call

ProtocolMergers == {"asyncapi", "grpc", "orpc"}

\* The map of the spec the first loop of a service merges.
EntryField(merger) ==
    CASE merger = "asyncapi" -> "channels"
      [] merger = "grpc" -> "services"
      [] merger = "orpc" -> "procedures"

\* format!("{channel_prefix}.{channel_name}"), format!("{service_prefix}_
\* {svc_name}"), format!("{procedure_prefix}.{proc_name}").
entry_key(merger, prefix, name) ==
    prefix \o << IF merger = "grpc" THEN "_" ELSE "." >> \o name

\* should_include_asyncapi, should_include_grpc, should_include_orpc.
should_include_protocol(merger, schema) ==
    \E i \in 1..Len(schema.manifest.schemas) :
        schema.manifest.schemas[i].schema_type = merger

\* An AsyncAPI Channel, or a gRPC service or oRPC procedure with the same
\* two optional members.
Channel(subscribe, publish) ==
    [ description |-> NoneOpt, subscribe |-> subscribe, publish |-> publish,
      parameters |-> NoneOpt, bindings |-> NoneOpt, extensions |-> << >> ]

\* merge_channels: Option::or keeps the receiver when it is Some.
merge_channels(existing, new) ==
    [ description |-> Or(new.description, existing.description),
      subscribe   |-> Or(new.subscribe, existing.subscribe),
      publish     |-> Or(new.publish, existing.publish),
      parameters  |-> Or(new.parameters, existing.parameters),
      bindings    |-> Or(new.bindings, existing.bindings),
      extensions  |-> MapExtend(existing.extensions, new.extensions) ]

\* What the entries are called in the messages of a merger.
EntryNoun(merger) ==
    CASE merger = "asyncapi" -> "channel"
      [] merger = "grpc" -> "service"
      [] merger = "orpc" -> "procedure"

\* One iteration of the loop over the channels, services or procedures of a
\* service, up to the insert: what is to be done, under which key, whether
\* the key is to be entered in seen_*, and the conflicts after.
entry_conflict(merger, entries, seen_keys, name, value, service_name, strategy, conflicts) ==
    LET first_key == entry_key(merger, service_name, name)
    IN  IF first_key \notin DOMAIN seen_keys
        THEN [outcome |-> "insert", key |-> first_key, value |-> value,
              track |-> TRUE, conflicts |-> conflicts]
        ELSE
          LET recorded(resolution) ==
                  Append(conflicts,
                         Conflict("Component", name,
                                  << seen_keys[first_key], service_name >>,
                                  resolution, strategy))
          IN  CASE strategy = "error" ->
                     [outcome |-> "err", key |-> first_key,
                      value |-> value, track |-> FALSE, conflicts |-> conflicts]
                [] strategy = "skip" ->
                     [outcome |-> "skip", key |-> first_key,
                      value |-> value, track |-> FALSE,
                      conflicts |->
                          recorded(<< "Skipped ", EntryNoun(merger), " from " >>
                                     \o service_name)]
                [] strategy = "overwrite" ->
                     [outcome |-> "insert", key |-> first_key,
                      value |-> value, track |-> TRUE,
                      conflicts |->
                          recorded(<< "Overwritten with " >>
                                     \o Version(service_name))]
                [] strategy = "prefix" ->
                     [outcome |-> "insert",
                      key |-> entry_key(merger, service_name, name),
                      value |-> value, track |-> TRUE,
                      conflicts |->
                          recorded(<< "Prefixed to " >>
                                     \o entry_key(merger, service_name, name))]
                [] strategy = "merge" /\ merger = "asyncapi" ->
                     [outcome |-> IF first_key \in DOMAIN entries
                                  THEN "insert" ELSE "skip",
                      key |-> first_key,
                      value |-> IF first_key \in DOMAIN entries
                                THEN merge_channels(entries[first_key],
                                                    value)
                                ELSE value,
                      track |-> FALSE,
                      conflicts |-> recorded(<< "Merged operations" >>)]
                [] strategy = "merge" /\ merger # "asyncapi" ->
                     [outcome |-> "insert", key |-> first_key,
                      value |-> value, track |-> TRUE,
                      conflicts |-> recorded(<< "Merged" >>)]

(***************************************************************************)
(* Inputs.                                                                 *)
(***************************************************************************)
ProtocolSpec(merger, entries) == [e \in {EntryField(merger)} |-> entries]

ProtocolSchema(merger, service_name, instance_id, schema_type, entries) ==
    [ manifest |-> ServiceManifest(<< service_name >>, << instance_id >>,
                                   DefaultRouting, << Plain(schema_type) >>),
      parsed   |-> Some(ProtocolSpec(merger, entries)) ]

Reads == Channel(Some("read"), NoneOpt)
Writes == Channel(NoneOpt, Some("write"))

\* Two instances of service "a" that share the entry "events", a service
\* "b" with the same entry name, and a service of another schema type.
ProtocolPool(merger) ==
    { ProtocolSchema(merger, "a", "i1", merger, << "events" >> :> Reads),
      ProtocolSchema(merger, "a", "i2", merger,
                     (<< "events" >> :> Writes) @@ (<< "jobs" >> :> Reads)),
      ProtocolSchema(merger, "b", "i1", merger, << "events" >> :> Writes),
      ProtocolSchema(merger, "b", "i2", "openapi", << "events" >> :> Reads) }

(***************************************************************************)
(* merge as a state machine: one step per iteration of its loops.          *)
(***************************************************************************)
EmptyProtocolResult(merger) ==
    [ spec |-> ProtocolSpec(merger, << >>),
      included_services |-> << >>,
      excluded_services |-> << >>,
      conflicts         |-> << >>,
      warnings          |-> << >> ]

InitProtocolMerge ==
    /\ InitRegistry
    /\ ManifestOff
    /\ GatewayOff
    /\ StorageOff
    /\ mConfig \in [merger : ProtocolMergers,
                    default_conflict_strategy : ConflictStrategies]
    /\ mSchemas \in ListsUpTo(ProtocolPool(mConfig.merger), MaxProtocolServices)
    /\ mIdx = 0
    /\ mPhase = "call"
    /\ mTodo = {}
    /\ mResult = << >>
    /\ mSeen = << >>
    /\ mRet = "none"
    /\ mHist = NoStep

\* `let mut result = ..; let mut seen_channels = HashMap::new(); ..`
protocol_merge_call ==
    /\ mPhase = "call"
    /\ mResult' = EmptyProtocolResult(mConfig.merger)
    /\ mSeen' = << >>
    /\ Goto([phase |-> "service", todo |-> {}, idx |-> 1])
    /\ mHist' = [step |-> "call"]
    /\ UNCHANGED mRet
    /\ Outside

\* `for mut schema in schemas { .. }` up to the first loop of the service.
protocol_merge_service ==
    /\ mPhase = "service"
    /\ mIdx <= Len(mSchemas)
    /\ LET schema == mSchemas[mIdx]
           service_name == schema.manifest.service_name
           names == DOMAIN schema.parsed.v[EntryField(mConfig.merger)]
       IN  IF ~should_include_protocol(mConfig.merger, schema)
           THEN /\ mResult' = [mResult EXCEPT !.excluded_services =
                                                 Append(@, service_name)]
                /\ Goto([phase |-> "service", todo |-> {}, idx |-> mIdx + 1])
                /\ mHist' = [step |-> "service", outcome |-> "excluded"]
           ELSE /\ mResult' = [mResult EXCEPT !.included_services =
                                                 Append(@, service_name)]
                /\ IF names = {}
                   THEN Goto([phase |-> "service", todo |-> {},
                              idx |-> mIdx + 1])
                   ELSE Goto([phase |-> "entries", todo |-> names,
                              idx |-> mIdx])
                /\ mHist' = [step |-> "service", outcome |-> "included"]
    /\ UNCHANGED << mSeen, mRet >>
    /\ Outside

\* One iteration of `for (channel_name, channel) in &parsed.channels` (of
\* the loop over services, over procedures).
protocol_merge_entry ==
    /\ mPhase = "entries"
    /\ \E name \in mTodo :
         LET merger == mConfig.merger
             field == EntryField(merger)
             schema == mSchemas[mIdx]
             service_name == schema.manifest.service_name
             c == entry_conflict(merger, mResult.spec[field], mSeen, name,
                                 schema.parsed.v[field][name], service_name,
                                 mConfig.default_conflict_strategy,
                                 mResult.conflicts)
             after == IF mTodo \ {name} # {}
                      THEN [phase |-> "entries", todo |-> mTodo \ {name},
                            idx |-> mIdx]
                      ELSE [phase |-> "service", todo |-> {}, idx |-> mIdx + 1]
         IN  /\ CASE c.outcome = "err" -> merge_fails
                  [] c.outcome = "skip" ->
                       /\ mResult' = [mResult EXCEPT !.conflicts = c.conflicts]
                       /\ Goto(after)
                       /\ UNCHANGED << mSeen, mRet >>
                  [] c.outcome = "insert" ->
                       /\ mResult' =
                            [mResult EXCEPT
                               !.spec[field] = MapInsert(@, c.key, c.value),
                               !.conflicts = c.conflicts]
                       /\ mSeen' = IF c.track
                                   THEN MapInsert(mSeen, c.key, service_name)
                                   ELSE mSeen
                       /\ Goto(after)
                       /\ UNCHANGED mRet
             /\ mHist' = [step |-> "entry", outcome |-> c.outcome,
                          service |-> mIdx, name |-> name, at |-> c.key,
                          collided |-> entry_key(merger, service_name, name),
                          hit |-> entry_key(merger, service_name, name)
                                    \in DOMAIN mSeen]
    /\ Outside

\* After the loop over the services: Ok(result).
protocol_merge_finish ==
    /\ mPhase = "service"
    /\ mIdx > Len(mSchemas)
    /\ mRet' = "Ok"
    /\ mPhase' = "done"
    /\ mHist' = [step |-> "finish"]
    /\ UNCHANGED << mResult, mSeen, mIdx, mTodo >>
    /\ Outside

NextProtocolMerge ==
    \/ protocol_merge_call
    \/ protocol_merge_service
    \/ protocol_merge_entry
    \/ protocol_merge_finish

SpecProtocolMerge == InitProtocolMerge /\ [][NextProtocolMerge]_vars

\* An iteration under the Prefix strategy on a channel, service or procedure
\* whose key is already in the merged spec.
PrefixCollision ==
    /\ mPhase = "entries"
    /\ mConfig.default_conflict_strategy = "prefix"
    /\ mHist'.step = "entry"
    /\ mHist'.hit

C37_Step ==
    PrefixCollision =>
        LET field == EntryField(mConfig.merger)
            before == mResult.spec[field]
            after == mResult'.spec[field]
        IN  /\ \A k \in DOMAIN before :
                  k \in DOMAIN after /\ after[k] = before[k]
            /\ mHist'.at # mHist'.collided
            /\ mHist'.at \in DOMAIN after

\* C37: in the AsyncAPI, gRPC and oRPC mergers under the Prefix strategy a
\* colliding key leaves the earlier entry unchanged and stores the later
\* entry under a different key.
C37_PrefixKeepsEarlierEntry == [][C37_Step]_vars

(***************************************************************************)
(* Part 7: Client::watch_services (src/gateway/client.rs) over a registry  *)
(* whose calls are taken one at a time.  The client is watcher 1 of the    *)
(* registry: chan[1] holds the events sent to it, delivered[1] counts the  *)
(* events its handler has been called with.  The handler spawns one task   *)
(* per event; a task awaits manifest_cache.write() and, after drop(cache), *)
(* the conversion, so the tasks run in any order.                          *)
(***************************************************************************)
MaxEvents == 3     \* mutations of the registry in one behaviour

\* The manifests of the watched service: two of instance i1, one of i2.
WatchedManifests ==
    { GatewayManifest("a", "i1", << InlineUsers >>, NoneOpt),
      GatewayManifest("a", "i1", << RegistryOrders >>, NoneOpt),
      GatewayManifest("a", "i2", << InlineEvents >>, NoneOpt) }

\* Client::new over a registry that holds the one schema.
InitWatch ==
    /\ InitRegistry
    /\ MergerOff
    /\ ManifestOff
    /\ StorageOff
    /\ manifest_cache = << >>
    /\ schema_cache = << >>
    /\ gwRegistry = [p \in {"/schemas/p"} |-> JsonOrders]
    /\ gwOps = 0
    /\ gwLast = NoOp
    /\ gwWatch = NotWatching
    /\ gwTasks = << >>

\* What no step of this part changes.
WatchFrame ==
    UNCHANGED << schemas, closed, lockVars, pc, call, ret, event, targets,
                 nCalls, notified, late, overlap, seen, closeDone, serial,
                 mergeVars, manifestVars, storageVars, gwRegistry, gwOps >>

\* A mutation of the registry and its notify_watchers, as one step.
Mutation(map, id, event_type, manifest) ==
    LET to == notify_targets(watchers, manifest.service_name)
        ev == ManifestEvent(event_type, manifest, nMut + 1)
    IN  /\ manifests' = map
        /\ nMut' = nMut + 1
        /\ applied' = [applied EXCEPT ![id] = nMut + 1]
        /\ chan' = [w \in WatcherIds |->
                      IF \E i \in 1..Len(to) : to[i] = w
                      THEN Append(chan[w], ev) ELSE chan[w]]
        /\ UNCHANGED << watchers, nWatchers, handler, delivered, subAt, subKey,
                        gwWatch, gwTasks, gwLast, manifest_cache,
                        schema_cache >>
        /\ WatchFrame

registry_register ==
    /\ nMut < MaxEvents
    /\ \E m \in WatchedManifests :
           Mutation(insert_manifest(manifests, m), m.instance_id, "Added", m)

registry_update ==
    /\ nMut < MaxEvents
    /\ \E m \in WatchedManifests :
           /\ contains_key(manifests, m.instance_id)
           /\ Mutation(insert_manifest(manifests, m), m.instance_id,
                       "Updated", m)

registry_delete ==
    /\ nMut < MaxEvents
    /\ \E id \in DOMAIN manifests :
           Mutation(remove_manifest(manifests, id), id, "Removed",
                    manifests[id])

\* on_change(routes), called by task (0: by watch_services itself) with the
\* routes of the manifests ms.
OnChange(task, ms) ==
    LET r == convert_to_routes(ms, schema_cache, gwRegistry)
    IN  /\ schema_cache' = r.cache
        /\ gwLast' = [op |-> "on_change", task |-> task, arg |-> ms,
                      routes |-> r.routes]

\* `let manifests = self.registry.list_manifests(service_name).await?`
watch_services_list ==
    /\ gwWatch.phase = "idle"
    /\ \E service_name \in {"a"} :
         \E ms \in KeyOrders(ListManifests(manifests, service_name)) :
             gwWatch' = [phase |-> "listed", service_name |-> service_name,
                         manifests |-> ms, at |-> nMut]
    /\ UNCHANGED << regVars, chanVars, histVars, gwTasks, gwLast,
                    manifest_cache, schema_cache >>
    /\ WatchFrame

\* `let routes = self.convert_to_routes(&manifests).await; on_change(routes)`
watch_services_initial ==
    /\ gwWatch.phase = "listed"
    /\ OnChange(0, gwWatch.manifests)
    /\ gwWatch' = [gwWatch EXCEPT !.phase = "notified"]
    /\ UNCHANGED << regVars, chanVars, histVars, gwTasks, manifest_cache >>
    /\ WatchFrame

\* `self.registry.watch_manifests(&service_name, handler).await`
watch_services_subscribe ==
    /\ gwWatch.phase = "notified"
    /\ watchers' = push_watcher(watchers, gwWatch.service_name, 1)
    /\ nWatchers' = 1
    /\ handler' = [handler EXCEPT ![1] = "running"]
    /\ subAt' = [subAt EXCEPT ![1] = nMut]
    /\ subKey' = [subKey EXCEPT ![1] = gwWatch.service_name]
    /\ gwWatch' = [gwWatch EXCEPT !.phase = "subscribed"]
    /\ UNCHANGED << manifests, chan, delivered, nMut, applied, gwTasks, gwLast,
                    manifest_cache, schema_cache >>
    /\ WatchFrame

\* The handler, called with the next event: tokio::spawn(async move { .. }).
watch_handler ==
    /\ handler[1] = "running"
    /\ delivered[1] < Len(chan[1])
    /\ delivered' = [delivered EXCEPT ![1] = @ + 1]
    /\ gwTasks' = Append(gwTasks, [phase |-> "spawned",
                                   event |-> chan[1][delivered[1] + 1]])
    /\ UNCHANGED << regVars, chan, handler, nWatchers, histVars, gwWatch,
                    gwLast, manifest_cache, schema_cache >>
    /\ WatchFrame

\* A spawned task from manifest_cache.write() to drop(cache).
watch_task_update ==
    /\ \E k \in DOMAIN gwTasks :
         LET ev == gwTasks[k].event
         IN  /\ gwTasks[k].phase = "spawned"
             /\ manifest_cache' =
                   IF ev.event_type = "Removed"
                   THEN MapRemove(manifest_cache, ev.manifest.instance_id)
                   ELSE MapInsert(manifest_cache, ev.manifest.instance_id,
                                  ev.manifest)
             /\ \E ms \in ValueOrders(manifest_cache') :
                    gwTasks' = [gwTasks EXCEPT
                                  ![k] = [phase |-> "converting", event |-> ev,
                                          manifests |-> ms]]
    /\ UNCHANGED << regVars, chanVars, histVars, gwWatch, gwLast,
                    schema_cache >>
    /\ WatchFrame

\* The rest of a spawned task: convert_to_routes and on_change(routes).
watch_task_on_change ==
    /\ \E k \in DOMAIN gwTasks :
         /\ gwTasks[k].phase = "converting"
         /\ OnChange(k, gwTasks[k].manifests)
         /\ gwTasks' = [gwTasks EXCEPT ![k].phase = "done"]
    /\ UNCHANGED << regVars, chanVars, histVars, gwWatch, manifest_cache >>
    /\ WatchFrame

NextWatch ==
    \/ registry_register
    \/ registry_update
    \/ registry_delete
    \/ watch_services_list
    \/ watch_services_initial
    \/ watch_services_subscribe
    \/ watch_handler
    \/ watch_task_update
    \/ watch_task_on_change

SpecWatch == InitWatch /\ [][NextWatch]_vars

\* watch_services has subscribed, every event sent to the client has been
\* delivered and every spawned task has finished.
WatchQuiescent ==
    /\ gwWatch.phase = "subscribed"
    /\ delivered[1] = Len(chan[1])
    /\ \A k \in DOMAIN gwTasks : gwTasks[k].phase = "done"

\* The routes convert_to_routes yields for the manifests of the cache.
RoutesOfCache ==
    { convert_to_routes(ms, schema_cache, gwRegistry).routes :
        ms \in ValueOrders(manifest_cache) }

\* C32: once all tasks spawned for delivered events have finished, the
\* manifest cache agrees with the registry for every instance_id mutated
\* after subscription, and the last on_change call carried the routes of
\* that cache.
C32_CacheFollowsRegistry ==
    WatchQuiescent =>
        /\ \A id \in InstanceIds :
              applied[id] > subAt[1] =>
                  /\ id \in DOMAIN manifest_cache <=> id \in DOMAIN manifests
                  /\ id \in DOMAIN manifests =>
                         manifest_cache[id] = manifests[id]
        /\ gwTasks # << >> => gwLast.routes \in RoutesOfCache

\* Every route of manifest m alone is among routes, and there is one.
Represented(m, routes) ==
    LET own == convert_to_routes(<< m >>, << >>, gwRegistry).routes
    IN  /\ own # << >>
        /\ \A i \in 1..Len(own) : \E j \in 1..Len(routes) : routes[j] = own[i]

C33_Step ==
    (gwLast' # gwLast /\ gwLast'.op = "on_change") =>
        \A id \in DOMAIN manifests' :
            (/\ applied'[id] <= gwWatch'.at
             /\ manifests'[id].service_name = gwWatch'.service_name)
                => Represented(manifests'[id], gwLast'.routes)

\* C33: a manifest registered before watch_services is called and never
\* updated or removed afterwards is represented in the routes of every
\* on_change invocation.
C33_PreRegisteredInEveryCall == [][C33_Step]_vars

====
